---- MODULE Spec2Model ----
(***************************************************************************)
(* Model of the no-guess Minesweeper solver (shared/solver-wasm):          *)
(* is_solvable with its six strategies, the board generator and the        *)
(* random mine placement.                                                   *)
(*                                                                         *)
(* Grids are functions on cells <<x, y>> (Grid.get(x, y) is g[<<x, y>>]).  *)
(* HashSet / HashMap iteration order is unspecified in Rust, so every loop *)
(* over a hash collection whose order can matter is a nondeterministic     *)
(* choice of the next key.  The f32 matrix of the Gaussian strategy is     *)
(* modelled with exact rationals compared against the same tolerances.     *)
(***************************************************************************)
EXTENDS Integers, Sequences, FiniteSets, TLC

VARIABLES
    width, height,      \* Grid.width, Grid.height
    mines,              \* Mines: cell -> BOOLEAN
    grid,               \* Grid: cell -> 0..8
    nc,                 \* NeighborCache: cell -> its neighbours, in push order
    start,              \* <<start_x, start_y>>
    visible,            \* VisibleGrid: cell -> -1..8
    flags,              \* Flags: cell -> BOOLEAN
    flag_count,         \* the driver's running flag count
    dirty_cells,        \* the driver's HashSet<u32> of cell keys
    progress,           \* the driver's progress flag
    iterations,         \* the driver's iteration counter
    pc,                 \* position in is_solvable: "entry", "head", a strategy, "done"
    result,             \* is_solvable's return value (when pc = "done")
    last,               \* the strategy that ended the latest iteration
    todo,               \* apply_basic_rules: dirty keys not yet visited
    new_dirty,          \* apply_basic_rules: new_dirty
    basic_progress,     \* apply_basic_rules: progress
    fc,                 \* apply_basic_rules: fc
    cc,                 \* solve_by_contradiction / check_contradiction locals
    run,                \* which call of is_solvable on this board: 1, or 2 for a re-run
    first,              \* the verdict of call 1 (during call 2)
    gen_bomb_count,     \* bomb_count of place_mines_random / generate_solvable_board
    safe_radius,        \* safe_radius; (safe_x, safe_y) is start
    placed,             \* place_mines_random: placed
    placement_attempts, \* place_mines_random: attempts
    max_attempts,       \* generate_solvable_board: max_attempts
    attempts,           \* generate_solvable_board: attempts
    gpc,                \* position in the generator / the placement
    verdicts,           \* the oracle's return values so far, in call order
    rng,                \* the mine sets a call of place_mines_random can come back with
    ret,                \* the BoardResult returned (when gpc = "returned")
    call,               \* the library function the host called last ("none" before any)
    arg,                \* its arguments, where the board does not hold them
    out                 \* what it returned

board == <<width, height, mines, grid, nc, start>>
basicLocals == <<todo, new_dirty, basic_progress, fc>>
solver == <<visible, flags, flag_count, dirty_cells, progress, iterations, pc, result,
            last, basicLocals, cc>>
rerun == <<run, first>>
gen == <<gen_bomb_count, safe_radius, placed, placement_attempts, max_attempts,
         attempts, gpc, verdicts, rng, ret>>

api == <<call, arg, out>>

vars == <<board, solver, rerun, gen, api>>

-----------------------------------------------------------------------------
(* Bounds of the model *)

\* the exported functions are followed on every board up to ApiWidth x ApiHeight
\* with any mine set, and on the mine-free boards up to CacheWidth x CacheHeight,
\* through at most MaxMoves moves of the host
ApiWidth == 3
ApiHeight == 3
CacheWidth == 5
CacheHeight == 5
MaxMoves == 2

MaxWidth == 3
MaxHeight == 3
MaxMines == 3

\* place_mines_random and generate_solvable_board are followed on a board of
\* PlaceWidth x PlaceHeight, for bomb counts up to MaxBombs and safe radii up to
\* MaxRadius around every cell
PlaceWidth == 2
PlaceHeight == 2
MaxBombs == 2
MaxRadius == 1

\* generate_solvable_board is followed for max_attempts up to MaxAttempts
MaxAttempts == 3

-----------------------------------------------------------------------------
(* types.rs *)

TwoTo16 == 65536

RECURSIVE BitOr(_, _)
BitOr(a, b) ==
    IF a = 0 THEN b
    ELSE IF b = 0 THEN a
    ELSE (IF a % 2 = 1 \/ b % 2 = 1 THEN 1 ELSE 0) + 2 * BitOr(a \div 2, b \div 2)

\* ((x as u32) << 16) | (y as u32): the shift keeps the low 16 bits of x
cell_key(x, y) ==
    LET hi == (x % TwoTo16) * TwoTo16
    IN  IF y < TwoTo16 THEN hi + y ELSE BitOr(hi, y)

\* ((key >> 16), (key & 0xFFFF))
decode_key(key) == <<key \div TwoTo16, key % TwoTo16>>

KeyOf(c) == cell_key(c[1], c[2])

Cells(w, h) == (0 .. w - 1) \X (0 .. h - 1)

AllCells == Cells(width, height)

in_bounds(x, y) == x >= 0 /\ x < width /\ y >= 0 /\ y < height

\* a faulty variant of Offsets8: (0, 0) is not skipped, (1, 1) is left out
Offsets8WithCentre == << <<-1, -1>>, <<-1, 0>>, <<-1, 1>>, <<0, -1>>,
                         <<0, 0>>, <<0, 1>>, <<1, -1>>, <<1, 0>> >>

\* the (dx, dy) pairs of "for dx in -1..=1 { for dy in -1..=1", (0,0) skipped
Offsets8 == << <<-1, -1>>, <<-1, 0>>, <<-1, 1>>, <<0, -1>>,
               <<0, 1>>, <<1, -1>>, <<1, 0>>, <<1, 1>> >>

InBoundsWH(w, h, c) == c[1] >= 0 /\ c[1] < w /\ c[2] >= 0 /\ c[2] < h

\* the neighbours NeighborCache::new pushes for cell c of a w x h grid, in push order
NeighborsWH(w, h, c) ==
    SelectSeq([i \in 1 .. 8 |-> <<c[1] + Offsets8[i][1], c[2] + Offsets8[i][2]>>],
              LAMBDA n : InBoundsWH(w, h, n))

\* NeighborCache::new
NeighborCache(w, h) == [c \in Cells(w, h) |-> NeighborsWH(w, h, c)]

\* NeighborCache::get
Neighbors(c) == nc[c]

Range(s) == {s[i] : i \in 1 .. Len(s)}

NeighborSet(c) == Range(Neighbors(c))

-----------------------------------------------------------------------------
(* board.rs: calculate_numbers *)

\* a faulty variant of calculate_numbers: no "continue" on a mine cell
CountAroundEveryCell(w, h, m) ==
    [c \in Cells(w, h) |->
        Cardinality({i \in 1 .. Len(NeighborsWH(w, h, c)) : m[NeighborsWH(w, h, c)[i]]})]

\* "for &(nx, ny) in neighbor_cache.get(x, y) { if mines.get(nx, ny) { count += 1; } }"
calculate_numbers(w, h, m) ==
    [c \in Cells(w, h) |->
        IF m[c] THEN 0
        ELSE Cardinality({i \in 1 .. Len(NeighborsWH(w, h, c)) : m[NeighborsWH(w, h, c)[i]]})]

\* Mines::count
MineCount(m) == Cardinality({c \in DOMAIN m : m[c]})

-----------------------------------------------------------------------------
(* solver.rs: simulate_reveal *)

\* a faulty variant of RevealPasses: the flag of the popped cell is not looked at
RevealPassesIgnoringFlags(vis, flg, c) ==
    /\ ~(c[1] >= width \/ c[2] >= height)
    /\ vis[c] = -1

\* a faulty variant of RevealLoop: the cell on the stack is revealed, a 0 does not cascade
RevealWithoutCascade(vis, flg, stack) ==
    IF vis[stack[1]] # -1 \/ flg[stack[1]] THEN vis
    ELSE [vis EXCEPT ![stack[1]] = grid[stack[1]]]

\* the checks a popped cell has to pass before it is revealed
RevealPasses(vis, flg, c) ==
    /\ ~(c[1] >= width \/ c[2] >= height)
    /\ ~(vis[c] # -1 \/ flg[c])

\* the while-let loop over the LIFO stack; returns the new visible grid.
\* Entries popped from the top that fail the checks "continue" and leave no trace;
\* the topmost entry that passes is the next one revealed.
RECURSIVE RevealLoop(_, _, _)
RevealLoop(vis, flg, stack) ==
    LET passing == {i \in 1 .. Len(stack) : RevealPasses(vis, flg, stack[i])}
    IN  IF passing = {} THEN vis
        ELSE
            LET top == CHOOSE i \in passing : \A j \in passing : j <= i
                c == stack[top]
                rest == SubSeq(stack, 1, top - 1)
                val == grid[c]
                vis2 == [vis EXCEPT ![c] = val]
            IN  IF val = 0
                THEN RevealLoop(vis2, flg, rest \o Neighbors(c))
                ELSE RevealLoop(vis2, flg, rest)

simulate_reveal(vis, flg, c) == RevealLoop(vis, flg, <<c>>)

\* simulate_reveal on each cell of a list, in order
RECURSIVE RevealAll(_, _, _)
RevealAll(vis, flg, cells) ==
    IF cells = << >> THEN vis
    ELSE RevealAll(simulate_reveal(vis, flg, Head(cells)), flg, Tail(cells))

-----------------------------------------------------------------------------
(* solver.rs: get_frontier *)

\* cells in scan order: for x in 0..width { for y in 0..height
ScanOrder(w, h) == [i \in 1 .. w * h |-> <<(i - 1) \div h, (i - 1) % h>>]

IsFrontier(vis, flg, c) ==
    /\ vis[c] = -1
    /\ ~flg[c]
    /\ \E n \in NeighborSet(c) : vis[n] > 0

get_frontier(vis, flg) ==
    SelectSeq(ScanOrder(width, height), LAMBDA c : IsFrontier(vis, flg, c))

-----------------------------------------------------------------------------
(* solver.rs: the neighbour counts every strategy takes of a clue *)

\* a faulty variant of HiddenList: flagged hidden cells are listed too
HiddenListWithFlagged(vis, flg, c) == SelectSeq(Neighbors(c), LAMBDA n : vis[n] = -1)

\* hidden_cells: the neighbours that are not flagged and hidden, in cache order
HiddenList(vis, flg, c) ==
    SelectSeq(Neighbors(c), LAMBDA n : ~flg[n] /\ vis[n] = -1)

\* a faulty variant of FlaggedCount: the flags of the whole board are counted
FlagsOnBoard(flg, c) == Cardinality({n \in DOMAIN flg : flg[n]})

\* flagged_count
FlaggedCount(flg, c) == Cardinality({n \in NeighborSet(c) : flg[n]})

\* the keys of the neighbours of every cell of a list
NeighborKeys(cells) ==
    UNION {{KeyOf(n) : n \in NeighborSet(cells[i])} : i \in 1 .. Len(cells)}

\* a faulty variant of FlagEach: the cells are flagged, fc is not incremented
FlagEachUncounted(acc, cells) ==
    [flags |-> [c \in DOMAIN acc.flags |->
                    acc.flags[c] \/ \E i \in 1 .. Len(cells) : cells[i] = c],
     fc |-> acc.fc,
     changed |-> acc.changed \o cells]

\* a faulty variant of FlagEach: the flags set earlier are dropped, only the cells of
\* this list stay flagged
FlagEachReplacing(acc, cells) ==
    [flags |-> [c \in DOMAIN acc.flags |-> \E i \in 1 .. Len(cells) : cells[i] = c],
     fc |-> Len(cells),
     changed |-> acc.changed \o cells]

\* "for cell in cells { if !flags.get(cell) { flags.set(cell, true); fc += 1; ... } }"
\* acc = [flags, fc, changed]
RECURSIVE FlagEach(_, _)
FlagEach(acc, cells) ==
    IF cells = << >> THEN acc
    ELSE
        LET c == Head(cells)
        IN  IF ~acc.flags[c]
            THEN FlagEach([flags |-> [acc.flags EXCEPT ![c] = TRUE],
                           fc |-> acc.fc + 1,
                           changed |-> Append(acc.changed, c)],
                          Tail(cells))
            ELSE FlagEach(acc, Tail(cells))

\* "for cell in cells { if visible.get(cell) == -1 { simulate_reveal(cell); changed.push(cell) } }"
\* acc = [visible, changed]
RECURSIVE RevealEach(_, _, _)
RevealEach(acc, flg, cells) ==
    IF cells = << >> THEN acc
    ELSE
        LET c == Head(cells)
        IN  IF acc.visible[c] = -1
            THEN RevealEach([visible |-> simulate_reveal(acc.visible, flg, c),
                             changed |-> Append(acc.changed, c)],
                            flg, Tail(cells))
            ELSE RevealEach(acc, flg, Tail(cells))

-----------------------------------------------------------------------------
(* solver.rs: apply_basic_rules, Strategy 1 *)

\* one pass of the body of "for &key in dirty_cells" on the running locals
\* st = [visible, flags, fc, new_dirty, progress]
BasicVisit(st, key) ==
    LET c == decode_key(key)
    IN  IF c[1] >= width \/ c[2] >= height THEN st
        ELSE IF st.visible[c] <= 0 THEN st
        ELSE
            LET val == st.visible[c]
                hidden_cells == HiddenList(st.visible, st.flags, c)
                hidden_count == Len(hidden_cells)
                flagged_count == FlaggedCount(st.flags, c)
            IN  IF hidden_count = 0 THEN st
                ELSE IF val = hidden_count + flagged_count
                THEN LET f == FlagEach([flags |-> st.flags, fc |-> st.fc,
                                         changed |-> << >>], hidden_cells)
                     IN  [st EXCEPT
                            !.flags = f.flags,
                            !.fc = f.fc,
                            !.new_dirty = st.new_dirty \cup NeighborKeys(f.changed),
                            !.progress = TRUE]
                ELSE IF val = flagged_count
                THEN [st EXCEPT
                        !.visible = RevealAll(st.visible, st.flags, hidden_cells),
                        !.new_dirty = st.new_dirty \cup NeighborKeys(hidden_cells),
                        !.progress = TRUE]
                ELSE st

\* A dirty key whose visit can still do something in this or a later state of
\* the pass.  The others take one of the loop's "continue"s whenever they are
\* visited: out of bounds, val <= 0 for good (revealed 0, or flagged and so never
\* revealed), or a clue with hidden_count = 0 (hidden_count never grows).
LiveKey(vis, flg, key) ==
    LET c == decode_key(key)
    IN  /\ c[1] < width /\ c[2] < height
        /\ \/ vis[c] = -1 /\ ~flg[c]
           \/ vis[c] > 0 /\ \E n \in NeighborSet(c) : ~flg[n] /\ vis[n] = -1

LiveKeys(vis, flg, keys) == {k \in keys : LiveKey(vis, flg, k)}

-----------------------------------------------------------------------------
(* solver.rs: apply_subset_logic, Strategy 2 *)

\* a faulty variant of ConstraintKeys: the neighbours of the dirty cells are left out
ConstraintKeysDirtyOnly(vis, dirty) ==
    {k \in dirty : decode_key(k)[1] < width /\ decode_key(k)[2] < height
                    /\ vis[decode_key(k)] > 0}

\* constraint_keys: revealed numbers among the dirty cells and their neighbours
ConstraintKeys(vis, dirty) ==
    LET inb == {k \in dirty : decode_key(k)[1] < width /\ decode_key(k)[2] < height}
    IN  {k \in inb : vis[decode_key(k)] > 0}
        \cup UNION {{KeyOf(n) : n \in {m \in NeighborSet(decode_key(k)) : vis[m] > 0}}
                    : k \in inb}

\* the keys that get a CellData entry
HasCellData(vis, flg, key) ==
    LET c == decode_key(key)
    IN  /\ vis[c] > 0
        /\ HiddenList(vis, flg, c) # << >>
        /\ vis[c] - FlaggedCount(flg, c) >= 0

Remaining(vis, flg, c) == vis[c] - FlaggedCount(flg, c)

\* the (dx, dy) pairs of "for dx in -2..=2 { for dy in -2..=2", (0,0) skipped
Offsets24 ==
    SelectSeq([i \in 1 .. 25 |-> <<((i - 1) \div 5) - 2, ((i - 1) % 5) - 2>>],
              LAMBDA d : d # <<0, 0>>)

\* a faulty variant of SubsetDiff: the cells of A are not taken out
SubsetDiffWhole(vis, flg, a, b) == HiddenList(vis, flg, b)

\* B \ A, in the order of B's hidden_list
SubsetDiff(vis, flg, a, b) ==
    LET ha == Range(HiddenList(vis, flg, a))
    IN  SelectSeq(HiddenList(vis, flg, b), LAMBDA n : n \notin ha)

\* the pair (A, B) passes "A subset of B" and one of the two deductions applies
SubsetPairActs(vis, flg, data, a, b) ==
    /\ in_bounds(b[1], b[2])
    /\ KeyOf(b) \in data
    /\ LET ha == Range(HiddenList(vis, flg, a))
           hb == Range(HiddenList(vis, flg, b))
           diff == SubsetDiff(vis, flg, a, b)
           diff_mines == Remaining(vis, flg, b) - Remaining(vis, flg, a)
       IN  /\ Cardinality(ha) < Cardinality(hb)
           /\ ha \subseteq hb
           /\ diff # << >>
           /\ diff_mines = 0 \/ diff_mines = Len(diff)

\* what the first acting pair of anchor A does: [progress, visible, flags, flag_count, dirty_cells]
SubsetApply(vis, flg, fcount, a, b) ==
    LET diff == SubsetDiff(vis, flg, a, b)
        diff_mines == Remaining(vis, flg, b) - Remaining(vis, flg, a)
    IN  IF diff_mines = 0
        THEN [progress |-> TRUE,
              visible |-> RevealAll(vis, flg, diff),
              flags |-> flg,
              flag_count |-> fcount,
              dirty_cells |-> NeighborKeys(diff)]
        ELSE LET f == FlagEach([flags |-> flg, fc |-> fcount, changed |-> << >>], diff)
             IN  [progress |-> TRUE,
                  visible |-> vis,
                  flags |-> f.flags,
                  flag_count |-> f.fc,
                  dirty_cells |-> NeighborKeys(f.changed)]

\* every result apply_subset_logic can return with progress: the keys of
\* cell_data are visited in hash order, so any anchor with an acting pair can
\* come first; for that anchor the pairs are tried in (dx, dy) order
SubsetOutcomes(vis, flg, fcount, dirty) ==
    LET data == {k \in ConstraintKeys(vis, dirty) : HasCellData(vis, flg, k)}
        Bs(a) == [i \in 1 .. 24 |-> <<a[1] + Offsets24[i][1], a[2] + Offsets24[i][2]>>]
        Acting(a) == {i \in 1 .. 24 : SubsetPairActs(vis, flg, data, a, Bs(a)[i])}
        First(a) == CHOOSE i \in Acting(a) : \A j \in Acting(a) : i <= j
    IN  {SubsetApply(vis, flg, fcount, decode_key(k), Bs(decode_key(k))[First(decode_key(k))])
            : k \in {kk \in data : Acting(decode_key(kk)) # {}}}

-----------------------------------------------------------------------------
(* gaussian.rs: the f32 values, as exact rationals <<numerator, denominator>> *)

Abs(i) == IF i < 0 THEN -i ELSE i

RECURSIVE Gcd(_, _)
Gcd(a, b) == IF b = 0 THEN a ELSE Gcd(b, a % b)

QNorm(n, d) ==
    LET s == IF d < 0 THEN -1 ELSE 1
        g == Gcd(Abs(n), Abs(d))
    IN  IF n = 0 THEN <<0, 1>> ELSE <<(s * n) \div g, (s * d) \div g>>

Q(i) == <<i, 1>>
QSub(a, b) == QNorm(a[1] * b[2] - b[1] * a[2], a[2] * b[2])
QAdd(a, b) == QNorm(a[1] * b[2] + b[1] * a[2], a[2] * b[2])
QMul(a, b) == QNorm(a[1] * b[1], a[2] * b[2])
QInv(a) == QNorm(a[2], a[1])
QAbs(a) == <<Abs(a[1]), a[2]>>
QLess(a, b) == a[1] * b[2] < b[1] * a[2]

\* const EPS: f32 = 0.001; const EPS_TINY: f32 = 0.000001
EPS == <<1, 1000>>
EPS_TINY == <<1, 1000000>>

MAX_COMPONENT_SIZE == 50

-----------------------------------------------------------------------------
(* gaussian.rs: compute_rref *)

\* the "while matrix[i][lead].abs() < EPS_TINY" search from row i, column lead;
\* <<i, lead>> of the pivot found, or <<0, 0>> when the loop returns (n == lead)
RECURSIVE FindPivot(_, _, _, _, _, _)
FindPivot(matrix, m, n, r, i, lead) ==
    IF ~QLess(QAbs(matrix[i][lead]), EPS_TINY) THEN <<i, lead>>
    ELSE IF i + 1 = m + 1
         THEN IF lead + 1 = n + 1 THEN <<0, 0>>
              ELSE FindPivot(matrix, m, n, r, r, lead + 1)
         ELSE FindPivot(matrix, m, n, r, i + 1, lead)

\* rows and columns are 1-based here: row r of the code is row r + 1
RECURSIVE RrefFrom(_, _, _, _, _)
RrefFrom(matrix, m, n, r, lead) ==
    IF r > m THEN matrix
    ELSE IF n < lead THEN matrix
    ELSE
        LET p == FindPivot(matrix, m, n, r, r, lead)
        IN  IF p = <<0, 0>> THEN matrix
            ELSE
                LET i == p[1]
                    ld == p[2]
                    swapped == [matrix EXCEPT ![i] = matrix[r], ![r] = matrix[i]]
                    val == swapped[r][ld]
                IN  IF QLess(QAbs(val), EPS_TINY)
                    THEN RrefFrom(swapped, m, n, r + 1, ld + 1)
                    ELSE
                        LET inv == QInv(val)
                            prow == [j \in 1 .. n + 1 |-> QMul(swapped[r][j], inv)]
                            elim == [k \in 1 .. m |->
                                        IF k = r THEN prow
                                        ELSE LET factor == swapped[k][ld]
                                             IN  IF QLess(EPS_TINY, QAbs(factor))
                                                 THEN [j \in 1 .. n + 1 |->
                                                        QSub(swapped[k][j], QMul(factor, prow[j]))]
                                                 ELSE swapped[k]]
                        IN  RrefFrom(elim, m, n, r + 1, ld + 1)

compute_rref(matrix, m, n) == RrefFrom(matrix, m, n, 1, 1)

-----------------------------------------------------------------------------
(* gaussian.rs: get_connected_components *)

\* the position of a cell in a list (0 when absent)
IndexOf(seq, c) ==
    IF \E i \in 1 .. Len(seq) : seq[i] = c
    THEN CHOOSE i \in 1 .. Len(seq) : seq[i] = c /\ \A j \in 1 .. i - 1 : seq[j] # c
    ELSE 0

RECURSIVE Concat(_)
Concat(seqs) == IF seqs = << >> THEN << >> ELSE Head(seqs) \o Concat(Tail(seqs))

\* a faulty variant of ViaClues: the neighbours of the cell itself
ViaAdjacency(vis, c) == Neighbors(c)

\* for a frontier cell: the neighbours of its clue neighbours, in loop order
ViaClues(vis, c) ==
    LET clues == SelectSeq(Neighbors(c), LAMBDA n : vis[n] > 0)
    IN  Concat([i \in 1 .. Len(clues) |-> Neighbors(clues[i])])

\* "if frontier_map[h_idx] == 1 { frontier_map[h_idx] = 2; queue.push; component.push }"
\* unvisited = the cells whose frontier_map entry is 1
RECURSIVE PushUnvisited(_, _, _)
PushUnvisited(unvisited, queue, cands) ==
    IF cands = << >> THEN <<unvisited, queue>>
    ELSE IF Head(cands) \in unvisited
         THEN PushUnvisited(unvisited \ {Head(cands)}, Append(queue, Head(cands)), Tail(cands))
         ELSE PushUnvisited(unvisited, queue, Tail(cands))

\* "while head < queue.len()"; component and queue hold the same cells
RECURSIVE ComponentBfs(_, _, _, _)
ComponentBfs(vis, unvisited, queue, head) ==
    IF head > Len(queue) THEN <<unvisited, queue>>
    ELSE
        LET r == PushUnvisited(unvisited, queue, ViaClues(vis, queue[head]))
        IN  ComponentBfs(vis, r[1], r[2], head + 1)

RECURSIVE ComponentsFrom(_, _, _, _)
ComponentsFrom(vis, frontier, unvisited, i) ==
    IF i > Len(frontier) THEN << >>
    ELSE IF frontier[i] \notin unvisited THEN ComponentsFrom(vis, frontier, unvisited, i + 1)
    ELSE
        LET r == ComponentBfs(vis, unvisited \ {frontier[i]}, <<frontier[i]>>, 1)
        IN  <<r[2]>> \o ComponentsFrom(vis, frontier, r[1], i + 1)

get_connected_components(vis, frontier) ==
    ComponentsFrom(vis, frontier, Range(frontier), 1)

-----------------------------------------------------------------------------
(* gaussian.rs: solve_component *)

\* a list without its repeated entries, first occurrences kept in order
RECURSIVE DedupFrom(_, _)
DedupFrom(seen, seq) ==
    IF seq = << >> THEN << >>
    ELSE IF Head(seq) \in seen THEN DedupFrom(seen, Tail(seq))
    ELSE <<Head(seq)>> \o DedupFrom(seen \cup {Head(seq)}, Tail(seq))

Dedup(seq) == DedupFrom({}, seq)

\* the clues next to the component, each once, in the order the loops meet them
ComponentClues(vis, component) ==
    Dedup(Concat([i \in 1 .. Len(component) |->
                    SelectSeq(Neighbors(component[i]), LAMBDA n : vis[n] > 0)]))

\* a faulty variant of ClueValid: no clue is discarded
ClueAlwaysValid(vis, flg, component, clue) == TRUE

\* "valid": no unflagged hidden neighbour of the clue lies outside the component
ClueValid(vis, flg, component, clue) ==
    \A n \in Range(HiddenList(vis, flg, clue)) : n \in Range(component)

\* the Equation of a valid clue as a matrix row: coefficients, then the target
EquationRow(vis, flg, component, clue) ==
    LET hs == Range(HiddenList(vis, flg, clue))
        n == Len(component)
    IN  [j \in 1 .. n + 1 |->
            IF j = n + 1 THEN Q(vis[clue] - FlaggedCount(flg, clue))
            ELSE IF component[j] \in hs THEN Q(1) ELSE Q(0)]

BuildMatrix(vis, flg, component) ==
    LET clues == SelectSeq(ComponentClues(vis, component),
                           LAMBDA q : ClueValid(vis, flg, component, q))
    IN  [i \in 1 .. Len(clues) |-> EquationRow(vis, flg, component, clues[i])]

RECURSIVE QSum(_)
QSum(seq) == IF seq = << >> THEN Q(0) ELSE QAdd(Head(seq), QSum(Tail(seq)))

\* a faulty variant of RowInference: no row is reasoned about
RowWithoutInference(row, component) == [safe |-> << >>, mines |-> << >>]

\* step 5 for one reduced row: [safe |-> list, mines |-> list]
RowInference(row, component) ==
    LET n == Len(component)
        vars_in_row == SelectSeq([j \in 1 .. n |-> j], LAMBDA j : QLess(EPS, QAbs(row[j])))
        pos == SelectSeq(vars_in_row, LAMBDA j : row[j][1] > 0)
        neg == SelectSeq(vars_in_row, LAMBDA j : ~(row[j][1] > 0))
        max_val == QSum([i \in 1 .. Len(pos) |-> row[pos[i]]])
        min_val == QSum([i \in 1 .. Len(neg) |-> row[neg[i]]])
        target == row[n + 1]
        cellsOf(idx) == [i \in 1 .. Len(idx) |-> component[idx[i]]]
    IN  IF vars_in_row = << >> THEN [safe |-> << >>, mines |-> << >>]
        ELSE IF QLess(QAbs(QSub(target, min_val)), EPS)
             THEN [safe |-> cellsOf(SelectSeq(vars_in_row, LAMBDA j : ~(row[j][1] < 0))),
                   mines |-> cellsOf(SelectSeq(vars_in_row, LAMBDA j : row[j][1] < 0))]
        ELSE IF QLess(QAbs(QSub(target, max_val)), EPS)
             THEN [safe |-> cellsOf(SelectSeq(vars_in_row, LAMBDA j : ~(row[j][1] > 0))),
                   mines |-> cellsOf(SelectSeq(vars_in_row, LAMBDA j : row[j][1] > 0))]
        ELSE [safe |-> << >>, mines |-> << >>]

\* GaussianResult without its progress field (progress = some list is non-empty)
NoInference == [safe |-> << >>, mines |-> << >>]

\* the safe and mines lists gathered from a list of results; a cell is pushed only
\* when "safe_set.insert(key)" / "mine_set.insert(key)" finds it new
MergeInferences(inf) ==
    [safe |-> Dedup(Concat([i \in 1 .. Len(inf) |-> inf[i].safe])),
     mines |-> Dedup(Concat([i \in 1 .. Len(inf) |-> inf[i].mines]))]

\* "for row in &matrix" over the reduced matrix
Inferences(matrix, component) ==
    MergeInferences([i \in 1 .. Len(matrix) |-> RowInference(matrix[i], component)])

\* "if equations.is_empty() { return .. progress: false }", else
\* "compute_rref(&mut matrix, m, n)" and step 5 on the reduced rows
SolveMatrix(matrix0, component) ==
    IF Len(matrix0) = 0 THEN NoInference
    ELSE Inferences(compute_rref(matrix0, Len(matrix0), Len(component)), component)

solve_component(vis, flg, component) ==
    IF Len(component) = 0 THEN NoInference
    ELSE SolveMatrix(BuildMatrix(vis, flg, component), component)

-----------------------------------------------------------------------------
(* gaussian.rs: solve_large_component, solve *)

\* sorted.sort_by(|a, b| a.1.cmp(&b.1).then(a.0.cmp(&b.0))): by y, then x
RowMajorLess(a, b) == a[2] < b[2] \/ (a[2] = b[2] /\ a[1] < b[1])

RECURSIVE SortRowMajor(_)
SortRowMajor(seq) ==
    IF seq = << >> THEN << >>
    ELSE
        LET lo == CHOOSE i \in 1 .. Len(seq) :
                    \A j \in 1 .. Len(seq) : ~RowMajorLess(seq[j], seq[i])
        IN  <<seq[lo]>> \o SortRowMajor(SubSeq(seq, 1, lo - 1) \o SubSeq(seq, lo + 1, Len(seq)))

Min(a, b) == IF a < b THEN a ELSE b

\* the lists of one window followed by those of the later windows
ExtendResult(here, rest) ==
    [safe |-> here.safe \o rest.safe, mines |-> here.mines \o rest.mines]

\* the windows sorted[i .. min(i + window_size, len)), i = 0, step, 2 step, ...
RECURSIVE WindowResults(_, _, _, _, _)
WindowResults(vis, flg, sorted, window_size, i) ==
    IF i >= Len(sorted) THEN NoInference
    ELSE ExtendResult(
            solve_component(vis, flg,
                            SubSeq(sorted, i + 1, Min(i + window_size, Len(sorted)))),
            WindowResults(vis, flg, sorted, window_size, i + (window_size \div 2)))

\* "if safe_set.insert(cell_key(x, y)) { safe_list.push((x, y)); }", and so for mines
DedupResult(r) == [safe |-> Dedup(r.safe), mines |-> Dedup(r.mines)]

solve_large_component(vis, flg, big_component, window_size) ==
    DedupResult(WindowResults(vis, flg, SortRowMajor(big_component), window_size, 0))

\* "let progress = !safe_list.is_empty() || !mine_list.is_empty()"
\* a faulty variant of WithProgress: progress is reported whatever was found
AlwaysProgress(r) == [progress |-> TRUE, safe |-> r.safe, mines |-> r.mines]

WithProgress(r) ==
    [progress |-> r.safe # << >> \/ r.mines # << >>, safe |-> r.safe, mines |-> r.mines]

\* "for component in components"
SolveComponents(vis, flg, components) ==
    MergeInferences([i \in 1 .. Len(components) |->
                        IF Len(components[i]) > MAX_COMPONENT_SIZE
                        THEN solve_large_component(vis, flg, components[i], MAX_COMPONENT_SIZE)
                        ELSE solve_component(vis, flg, components[i])])

\* gaussian::solve: [progress, safe, mines]
solve(vis, flg, frontier) ==
    IF frontier = << >> THEN [progress |-> FALSE, safe |-> << >>, mines |-> << >>]
    ELSE WithProgress(SolveComponents(vis, flg, get_connected_components(vis, frontier)))

-----------------------------------------------------------------------------
(* solver.rs: solve_by_gaussian_elimination, Strategy 3 *)

\* a strategy's result with progress: [progress, visible, flags, flag_count, changed_cells]
Changed(f, r) ==
    [progress |-> TRUE, visible |-> r.visible, flags |-> f.flags,
     flag_count |-> f.fc, changed_cells |-> r.changed]

\* "for &(sx, sy) in &result.safe", after the mines are flagged (f)
GaussianReveal(vis, f, safe) ==
    Changed(f, RevealEach([visible |-> vis, changed |-> f.changed], f.flags, safe))

\* "for &(mx, my) in &result.mines", then the safe cells
GaussianApply(vis, flg, fcount, res) ==
    IF ~res.progress
    THEN [progress |-> FALSE, visible |-> vis, flags |-> flg,
          flag_count |-> fcount, changed_cells |-> << >>]
    ELSE GaussianReveal(vis,
                        FlagEach([flags |-> flg, fc |-> fcount, changed |-> << >>], res.mines),
                        res.safe)

\* solve of an empty frontier reports no progress, as the early return does
solve_by_gaussian_elimination(vis, flg, fcount) ==
    GaussianApply(vis, flg, fcount, solve(vis, flg, get_frontier(vis, flg)))

-----------------------------------------------------------------------------
(* solver.rs: group_frontier_regions *)

\* "if !visited.contains(&hk) && !queue_set.contains(&hk) && frontier_set.contains(&hk)"
\* acc = [queue, queue_set]
RECURSIVE PushRegionCells(_, _, _, _)
PushRegionCells(acc, visited, frontier_set, cands) ==
    IF cands = << >> THEN acc
    ELSE
        LET h == Head(cands)
        IN  IF h \notin visited /\ h \notin acc.queue_set /\ h \in frontier_set
            THEN PushRegionCells([queue |-> Append(acc.queue, h),
                                  queue_set |-> acc.queue_set \cup {h}],
                                 visited, frontier_set, Tail(cands))
            ELSE PushRegionCells(acc, visited, frontier_set, Tail(cands))

\* "while let Some((cx, cy)) = queue.pop()": st = [visited, region, queue, queue_set]
RECURSIVE RegionLoop(_, _, _)
RegionLoop(vis, frontier_set, st) ==
    IF st.queue = << >> THEN st
    ELSE
        LET c == st.queue[Len(st.queue)]
            rest == SubSeq(st.queue, 1, Len(st.queue) - 1)
        IN  IF c \in st.visited
            THEN RegionLoop(vis, frontier_set, [st EXCEPT !.queue = rest])
            ELSE
                LET visited2 == st.visited \cup {c}
                    pushed == PushRegionCells([queue |-> rest, queue_set |-> st.queue_set],
                                              visited2, frontier_set, ViaClues(vis, c))
                IN  RegionLoop(vis, frontier_set,
                               [visited |-> visited2,
                                region |-> Append(st.region, c),
                                queue |-> pushed.queue,
                                queue_set |-> pushed.queue_set])

RECURSIVE RegionsFrom(_, _, _, _)
RegionsFrom(vis, frontier, visited, i) ==
    IF i > Len(frontier) THEN << >>
    ELSE IF frontier[i] \in visited THEN RegionsFrom(vis, frontier, visited, i + 1)
    ELSE
        LET st == RegionLoop(vis, Range(frontier),
                             [visited |-> visited, region |-> << >>,
                              queue |-> <<frontier[i]>>, queue_set |-> {frontier[i]}])
        IN  (IF st.region # << >> THEN <<st.region>> ELSE << >>)
            \o RegionsFrom(vis, frontier, st.visited, i + 1)

\* a faulty variant of group_frontier_regions: the frontier is one region
one_region(frontier, vis) == IF frontier = << >> THEN << >> ELSE <<frontier>>

group_frontier_regions(frontier, vis) ==
    IF frontier = << >> THEN << >> ELSE RegionsFrom(vis, frontier, {}, 1)

-----------------------------------------------------------------------------
(* solver.rs: get_region_constraints, enumerate_configurations, analyze_configurations *)

MAX_REGION_SIZE == 20

RECURSIVE Pow2(_)
Pow2(n) == IF n = 0 THEN 1 ELSE 2 * Pow2(n - 1)

\* const MAX_CONFIGURATIONS: u64 = 1 << MAX_REGION_SIZE
MAX_CONFIGURATIONS == Pow2(MAX_REGION_SIZE)

\* a faulty variant of RegionConstraint: remaining is the clue's value, the
\* flagged neighbours are not taken off
RegionConstraintKeepingFlagged(region, vis, flg, clue) ==
    [remaining |-> vis[clue],
     cells_in_region_indices |->
         [i \in 1 .. Len(SelectSeq(HiddenList(vis, flg, clue), LAMBDA n : n \in Range(region))) |->
             IndexOf(region, SelectSeq(HiddenList(vis, flg, clue),
                                       LAMBDA n : n \in Range(region))[i])],
     cells_outside_count |->
         Len(SelectSeq(HiddenList(vis, flg, clue), LAMBDA n : n \notin Range(region)))]

\* RegionConstraint of one clue; region indices are 1-based positions
RegionConstraint(region, vis, flg, clue) ==
    LET hs == HiddenList(vis, flg, clue)
        inside == SelectSeq(hs, LAMBDA n : n \in Range(region))
    IN  [remaining |-> vis[clue] - FlaggedCount(flg, clue),
         cells_in_region_indices |-> [i \in 1 .. Len(inside) |-> IndexOf(region, inside[i])],
         cells_outside_count |-> Len(hs) - Len(inside)]

get_region_constraints(region, vis, flg) ==
    LET clues == ComponentClues(vis, region)
    IN  [i \in 1 .. Len(clues) |-> RegionConstraint(region, vis, flg, clues[i])]

\* (mask >> (idx - 1)) & 1 == 1
BitSet(mask, idx) == (mask \div Pow2(idx - 1)) % 2 = 1

\* mask.count_ones()
RECURSIVE count_ones(_)
count_ones(mask) == IF mask = 0 THEN 0 ELSE (mask % 2) + count_ones(mask \div 2)

\* a faulty variant of MaskValid: "mines_needed_outside > c.cells_outside_count" is
\* not tested
MaskValidWithoutUpperBound(mask, constraints, max_mines) ==
    /\ ~(count_ones(mask) > max_mines)
    /\ \A i \in 1 .. Len(constraints) :
         constraints[i].remaining
            >= Cardinality({j \in 1 .. Len(constraints[i].cells_in_region_indices) :
                              BitSet(mask, constraints[i].cells_in_region_indices[j])})

MaskValid(mask, constraints, max_mines) ==
    /\ ~(count_ones(mask) > max_mines)
    /\ \A i \in 1 .. Len(constraints) :
         LET c == constraints[i]
             mines_in_region == Cardinality({j \in 1 .. Len(c.cells_in_region_indices) :
                                               BitSet(mask, c.cells_in_region_indices[j])})
             mines_needed_outside == c.remaining - mines_in_region
         IN  ~(mines_needed_outside < 0 \/ mines_needed_outside > c.cells_outside_count)

\* the valid masks (the code's list is in increasing order)
enumerate_configurations(region, constraints, max_mines) ==
    LET total_combinations == Pow2(Len(region))
    IN  IF total_combinations > MAX_CONFIGURATIONS THEN {}
        ELSE {mask \in 0 .. total_combinations - 1 : MaskValid(mask, constraints, max_mines)}

\* a faulty variant of analyze_configurations: a cell is reported as a mine when
\* some mask has its bit, and as safe when some mask lacks it
analyze_some_configuration(region, valid_masks) ==
    <<SelectSeq(region, LAMBDA c : \E i \in 1 .. Len(region) :
                   region[i] = c /\ \E mask \in valid_masks : BitSet(mask, i)),
      SelectSeq(region, LAMBDA c : \E i \in 1 .. Len(region) :
                   region[i] = c /\ \E mask \in valid_masks : ~BitSet(mask, i))>>

\* <<definite_mines, definite_safes>>
analyze_configurations(region, valid_masks) ==
    LET idx == [i \in 1 .. Len(region) |-> i]
        always_mine(i) == \A mask \in valid_masks : BitSet(mask, i)
        always_safe(i) == \A mask \in valid_masks : ~BitSet(mask, i)
        mine_idx == SelectSeq(idx, always_mine)
        safe_idx == SelectSeq(idx, always_safe)
    IN  <<[i \in 1 .. Len(mine_idx) |-> region[mine_idx[i]]],
          [i \in 1 .. Len(safe_idx) |-> region[safe_idx[i]]]>>

-----------------------------------------------------------------------------
(* solver.rs: tank_solver, Strategy 5 *)

\* a faulty variant of SortByLen: the regions stay in the order they were found
RegionsAsFound(seq) == seq

\* sorted_regions.sort_by_key(|r| r.len()): a stable sort
RECURSIVE SortByLen(_)
SortByLen(seq) ==
    IF seq = << >> THEN << >>
    ELSE
        LET lo == CHOOSE i \in 1 .. Len(seq) :
                    /\ \A j \in 1 .. Len(seq) : Len(seq[i]) <= Len(seq[j])
                    /\ \A j \in 1 .. i - 1 : Len(seq[j]) > Len(seq[i])
        IN  <<seq[lo]>> \o SortByLen(SubSeq(seq, 1, lo - 1) \o SubSeq(seq, lo + 1, Len(seq)))

\* the body of "for region in &sorted_regions" for one region
\* [progress, visible, flags, flag_count, changed_cells]
TankRegion(vis, flg, bomb_count, fcount, region) ==
    LET none == [progress |-> FALSE, visible |-> vis, flags |-> flg,
                 flag_count |-> fcount, changed_cells |-> << >>]
    IN  IF Len(region) > MAX_REGION_SIZE THEN none
        ELSE
            LET constraints == get_region_constraints(region, vis, flg)
                remaining_mines == bomb_count - fcount
            IN  IF constraints = << >> THEN none
                ELSE IF remaining_mines < 0 THEN none
                ELSE
                    LET valid_configs == enumerate_configurations(region, constraints,
                                                                  remaining_mines)
                    IN  IF valid_configs = {} THEN none
                        ELSE
                            LET d == analyze_configurations(region, valid_configs)
                                f == FlagEach([flags |-> flg, fc |-> fcount,
                                               changed |-> << >>], d[1])
                                r == RevealEach([visible |-> vis, changed |-> f.changed],
                                                f.flags, d[2])
                            IN  [progress |-> r.changed # << >>,
                                 visible |-> r.visible, flags |-> f.flags,
                                 flag_count |-> f.fc, changed_cells |-> r.changed]

\* the first region, in sorted order, whose body ends with progress
RECURSIVE TankLoop(_, _, _, _, _, _)
TankLoop(vis, flg, bomb_count, fcount, regions, i) ==
    IF i > Len(regions)
    THEN [progress |-> FALSE, visible |-> vis, flags |-> flg,
          flag_count |-> fcount, changed_cells |-> << >>]
    ELSE
        LET r == TankRegion(vis, flg, bomb_count, fcount, regions[i])
        IN  IF r.progress THEN r
            ELSE TankLoop(vis, flg, bomb_count, fcount, regions, i + 1)

tank_solver(vis, flg, bomb_count, fcount) ==
    LET frontier == get_frontier(vis, flg)
    IN  IF frontier = << >>
        THEN [progress |-> FALSE, visible |-> vis, flags |-> flg,
              flag_count |-> fcount, changed_cells |-> << >>]
        ELSE TankLoop(vis, flg, bomb_count, fcount,
                      SortByLen(group_frontier_regions(frontier, vis)), 1)

-----------------------------------------------------------------------------
(* solver.rs: apply_global_mine_count, Strategy 6 *)

\* "for &(hx, hy) in &hidden_cells { flags.set(hx, hy, true); fc += 1; }"
\* acc = [flags, fc]
RECURSIVE FlagAllHidden(_, _)
FlagAllHidden(acc, cells) ==
    IF cells = << >> THEN acc
    ELSE FlagAllHidden([flags |-> [acc.flags EXCEPT ![Head(cells)] = TRUE],
                        fc |-> acc.fc + 1], Tail(cells))

\* a faulty variant of apply_global_mine_count: the branch "all hidden cells are
\* mines" is missing
global_mine_count_reveal_only(vis, flg, bombs, fcount) ==
    LET hidden_cells == SelectSeq(ScanOrder(width, height),
                                  LAMBDA c : vis[c] = -1 /\ ~flg[c])
    IN  IF hidden_cells # << >> /\ bombs - fcount = 0
        THEN [progress |-> TRUE, visible |-> RevealAll(vis, flg, hidden_cells),
              flags |-> flg, flag_count |-> fcount]
        ELSE [progress |-> FALSE, visible |-> vis, flags |-> flg, flag_count |-> fcount]

\* [progress, visible, flags, flag_count]
apply_global_mine_count(vis, flg, bomb_count, fcount) ==
    LET hidden_cells == SelectSeq(ScanOrder(width, height),
                                  LAMBDA c : vis[c] = -1 /\ ~flg[c])
        remaining_mines == bomb_count - fcount
    IN  IF hidden_cells # << >> /\ remaining_mines = Len(hidden_cells)
        THEN LET f == FlagAllHidden([flags |-> flg, fc |-> fcount], hidden_cells)
             IN  [progress |-> TRUE, visible |-> vis, flags |-> f.flags, flag_count |-> f.fc]
        ELSE IF hidden_cells # << >> /\ remaining_mines = 0
        THEN [progress |-> TRUE, visible |-> RevealAll(vis, flg, hidden_cells),
              flags |-> flg, flag_count |-> fcount]
        ELSE [progress |-> FALSE, visible |-> vis, flags |-> flg, flag_count |-> fcount]

-----------------------------------------------------------------------------
(* solver.rs: check_contradiction, one visit of its inner loop *)

CONTRA_MAX_ITERATIONS == 20
MAX_CHECK == 50

ContraIdle ==
    [i |-> 0, assume_mine |-> FALSE, sim_flags |-> {}, sim_revealed |-> {},
     current |-> {}, to_check |-> {}, changed |-> FALSE, iterations |-> 0]

\* get_flag: the overlay entry, else the real flag
get_flag(flg, sim_flags, c) == KeyOf(c) \in sim_flags \/ flg[c]

SimHidden(vis, flg, c, k) ==
    SelectSeq(Neighbors(c),
              LAMBDA n : /\ ~get_flag(flg, k.sim_flags, n)
                         /\ vis[n] = -1
                         /\ KeyOf(n) \notin k.sim_revealed)

SimFlagged(flg, c, k) ==
    Cardinality({n \in NeighborSet(c) : get_flag(flg, k.sim_flags, n)})

\* the keys of current_check whose visit is not "if val <= 0 { continue; }"
\* (visible does not change during a check)
ClueKeys(vis, keys) == {key \in keys : vis[decode_key(key)] > 0}

\* the locals when the first round of the while loop starts visiting
CheckStart(vis, i, c, assume_mine) ==
    [i |-> i, assume_mine |-> assume_mine,
     sim_flags |-> IF assume_mine THEN {KeyOf(c)} ELSE {},
     sim_revealed |-> IF assume_mine THEN {} ELSE {KeyOf(c)},
     current |-> ClueKeys(vis, {KeyOf(n) : n \in NeighborSet(c)}),
     to_check |-> {}, changed |-> FALSE, iterations |-> 1]

\* a faulty variant of VisitContradicts: only "flagged_count > val" is tested
VisitContradictsOverflagOnly(vis, flg, k, key) ==
    /\ vis[decode_key(key)] > 0
    /\ SimFlagged(flg, decode_key(key), k) > vis[decode_key(key)]

\* the visit of key returns true
VisitContradicts(vis, flg, k, key) ==
    LET c == decode_key(key)
        val == vis[c]
        flagged_count == SimFlagged(flg, c, k)
        hidden_count == Len(SimHidden(vis, flg, c, k))
    IN  /\ val > 0
        /\ flagged_count > val \/ flagged_count + hidden_count < val

\* a faulty variant of VisitNext: the visited key is never taken out of
\* current_check, and changed is flipped instead of set
VisitNextKeepingKey(vis, flg, k, key) ==
    [k EXCEPT !.changed = ~k.changed]

\* the locals after a visit of key that does not return
VisitNext(vis, flg, k, key) ==
    LET c == decode_key(key)
        val == vis[c]
        flagged_count == SimFlagged(flg, c, k)
        hidden_cells == SimHidden(vis, flg, c, k)
        hidden_count == Len(hidden_cells)
        hkeys == {KeyOf(n) : n \in Range(hidden_cells)}
        rest == [k EXCEPT !.current = k.current \ {key}]
    IN  IF val <= 0 \/ hidden_count = 0 THEN rest
        ELSE IF flagged_count = val
             THEN [rest EXCEPT !.sim_revealed = k.sim_revealed \cup hkeys,
                               !.changed = TRUE,
                               !.to_check = k.to_check \cup NeighborKeys(hidden_cells)]
        ELSE IF flagged_count + hidden_count = val
             THEN [rest EXCEPT !.sim_flags = k.sim_flags \cup hkeys,
                               !.changed = TRUE,
                               !.to_check = k.to_check \cup NeighborKeys(hidden_cells)]
        ELSE rest

-----------------------------------------------------------------------------
(* The inputs of is_solvable *)

RECURSIVE SubsetsUpTo(_, _)
SubsetsUpTo(S, k) ==
    IF k = 0 THEN {{}}
    ELSE LET smaller == SubsetsUpTo(S, k - 1)
         IN  smaller \cup {T \cup {c} : T \in smaller, c \in S}

MinesOf(w, h, S) == [c \in Cells(w, h) |-> c \in S]

Hidden(w, h) == [c \in Cells(w, h) |-> -1]
NoFlags(w, h) == [c \in Cells(w, h) |-> FALSE]

\* every board up to MaxWidth x MaxHeight with at most MaxMines mines, from every
\* start cell: <<width, height, mine set, start>>
SmallCases ==
    UNION {{<<w, h, S, st>> : S \in SubsetsUpTo(Cells(w, h), MaxMines), st \in Cells(w, h)}
           : <<w, h>> \in (1 .. MaxWidth) \X (1 .. MaxHeight)}

\* the cells of the 3x3 zone centred at (2, 2)
Centre3x3 == {c \in Cells(5, 5) : c[1] \in 1 .. 3 /\ c[2] \in 1 .. 3}

\* the placements of three mines in the left column of a 5 x 5 board
LeftColumnPlacements ==
    {S \in SUBSET {c \in Cells(5, 5) : c[1] = 0} : Cardinality(S) = 3}

\* boards beyond that size: a wall of two mines across a 4 x 3 board and across a
\* 2 x 4 board, from every start cell (Strategies 5 and 6 have work to do there),
\* two mines at the end of a 4 x 1 board (the outer one has no clue next to it
\* and is left to Strategy 6), and 5 x 5 boards with three mines outside the 3x3
\* centre, from the centre
LargeCases ==
    {<<4, 3, {<<0, 1>>, <<1, 1>>}, st>> : st \in Cells(4, 3)}
    \cup {<<2, 4, {<<0, 1>>, <<1, 1>>}, st>> : st \in Cells(2, 4)}
    \cup {<<4, 1, {<<0, 0>>, <<1, 0>>}, st>> : st \in Cells(4, 1)}
    \cup {<<5, 5, S, <<2, 2>>>> : S \in LeftColumnPlacements}

\* the state of is_solvable when it is called
SolverEntry ==
    /\ visible = Hidden(width, height)
    /\ flags = NoFlags(width, height)
    /\ flag_count = 0
    /\ dirty_cells = {}
    /\ progress = TRUE
    /\ iterations = 0
    /\ pc = "entry"
    /\ result = FALSE
    /\ last = "call"
    /\ todo = {}
    /\ new_dirty = {}
    /\ basic_progress = FALSE
    /\ fc = 0
    /\ cc = ContraIdle

\* no board generation is going on
NoGenerator ==
    /\ gen_bomb_count = 0
    /\ safe_radius = 0
    /\ placed = 0
    /\ placement_attempts = 0
    /\ max_attempts = 0
    /\ attempts = 0
    /\ gpc = "idle"
    /\ verdicts = << >>
    /\ rng = {}
    /\ ret = [mines |-> << >>, grid |-> << >>, attempts |-> 0, success |-> FALSE]

\* the host has called none of the other exported functions
NoCall ==
    /\ call = "none"
    /\ arg = << >>
    /\ out = << >>

\* is_solvable is called on a board with consistent numbers, from any start cell
SolverInit ==
    /\ \E b \in SmallCases \cup LargeCases :
         /\ width = b[1]
         /\ height = b[2]
         /\ mines = MinesOf(b[1], b[2], b[3])
         /\ grid = calculate_numbers(b[1], b[2], MinesOf(b[1], b[2], b[3]))
         /\ start = b[4]
    /\ nc = NeighborCache(width, height)
    /\ SolverEntry
    /\ run = 1
    /\ first = FALSE
    /\ NoCall
    /\ NoGenerator

-----------------------------------------------------------------------------
(* solver.rs: is_solvable *)

bomb_count == MineCount(mines)

\* a faulty variant of max_iterations: one iteration for each row of the board
iteration_per_row == height

max_iterations == width * height * 2

\* a faulty variant of StartZone: the zone revealed is 5x5
StartZone5x5(c) ==
    SelectSeq([i \in 1 .. 25 |-> <<c[1] + ((i - 1) \div 5) - 2, c[2] + ((i - 1) % 5) - 2>>],
              LAMBDA n : in_bounds(n[1], n[2]))

\* "Reveal 3x3 safe zone around start": the nine (dx, dy), clipped
StartZone(c) ==
    SelectSeq([i \in 1 .. 9 |-> <<c[1] + ((i - 1) \div 3) - 1, c[2] + ((i - 1) % 3) - 1>>],
              LAMBDA n : in_bounds(n[1], n[2]))

\* a faulty variant of InitialDirty: the neighbours of the revealed cells are left out
InitialDirtyRevealedOnly(vis) == {KeyOf(c) : c \in {d \in AllCells : vis[d] # -1}}

\* "Build initial dirty cells"
InitialDirty(vis) ==
    UNION {{KeyOf(c)} \cup {KeyOf(n) : n \in NeighborSet(c)}
           : c \in {d \in AllCells : vis[d] # -1}}

\* a faulty variant of AddDirty: the neighbours of the changed cells are left out
AddDirtyCellsOnly(dirty, changed) ==
    dirty \cup {KeyOf(changed[i]) : i \in 1 .. Len(changed)}

\* dirty_cells.insert of every changed cell and of its neighbours
AddDirty(dirty, changed) ==
    dirty \cup {KeyOf(changed[i]) : i \in 1 .. Len(changed)} \cup NeighborKeys(changed)

\* a faulty variant of RevealedCount: hidden cells are counted too
CellCount(vis) == Cardinality(DOMAIN vis)

RevealedCount(vis) == Cardinality({c \in DOMAIN vis : vis[c] # -1})

\* is_solvable up to the while loop
Begin ==
    /\ pc = "entry"
    /\ LET vis == RevealAll(visible, flags, StartZone(start))
       IN  /\ visible' = vis
           /\ dirty_cells' = InitialDirty(vis)
    /\ pc' = "head"
    /\ UNCHANGED <<board, rerun, api, gen, flags, flag_count, progress, iterations, result, last,
                   basicLocals, cc>>

\* "while progress && iterations < max_iterations" is entered; Strategy 1 starts
LoopEnter ==
    /\ pc = "head"
    /\ progress /\ iterations < max_iterations
    /\ progress' = FALSE
    /\ iterations' = iterations + 1
    /\ todo' = LiveKeys(visible, flags, dirty_cells)
    /\ new_dirty' = {}
    /\ basic_progress' = FALSE
    /\ fc' = flag_count
    /\ pc' = "basic"
    /\ UNCHANGED <<board, rerun, api, gen, visible, flags, flag_count, dirty_cells, result, last, cc>>

\* the loop is over: count the revealed cells and return
Return ==
    /\ pc = "head"
    /\ ~(progress /\ iterations < max_iterations)
    /\ result' = (RevealedCount(visible) = width * height - bomb_count)
    /\ pc' = "done"
    /\ UNCHANGED <<board, rerun, api, gen, visible, flags, flag_count, dirty_cells, progress, iterations,
                   last, basicLocals, cc>>

\* apply_basic_rules visits the next dirty key, in hash order
BasicStep ==
    /\ pc = "basic"
    /\ \E key \in todo :
         LET st == BasicVisit([visible |-> visible, flags |-> flags, fc |-> fc,
                               new_dirty |-> new_dirty, progress |-> basic_progress], key)
         IN  /\ visible' = st.visible
             /\ flags' = st.flags
             /\ fc' = st.fc
             /\ new_dirty' = st.new_dirty
             /\ basic_progress' = st.progress
             /\ todo' = LiveKeys(st.visible, st.flags, todo \ {key})
    /\ UNCHANGED <<board, rerun, api, gen, flag_count, dirty_cells, progress, iterations, pc, result, last, cc>>

\* a faulty variant of BasicReturn: no "continue" after Strategy 1 made progress,
\* Strategy 2 runs in the same iteration
BasicReturnFallsThrough ==
    /\ pc = "basic" /\ todo = {}
    /\ IF basic_progress
       THEN /\ progress' = TRUE
            /\ flag_count' = fc
            /\ dirty_cells' = new_dirty
            /\ last' = "basic"
       ELSE UNCHANGED <<progress, flag_count, dirty_cells, last>>
    /\ pc' = "subset"
    /\ UNCHANGED <<board, rerun, api, gen, visible, flags, iterations, result, basicLocals, cc>>

\* apply_basic_rules returns: with progress the driver takes its results and
\* continues; without, dirty_cells stays and Strategy 2 is next
BasicReturn ==
    /\ pc = "basic" /\ todo = {}
    /\ IF basic_progress
       THEN /\ progress' = TRUE
            /\ flag_count' = fc
            /\ dirty_cells' = new_dirty
            /\ last' = "basic"
            /\ pc' = "head"
       ELSE /\ pc' = "subset"
            /\ UNCHANGED <<progress, flag_count, dirty_cells, last>>
    /\ UNCHANGED <<board, rerun, api, gen, visible, flags, iterations, result, basicLocals, cc>>

\* Strategy 2
ApplySubsetLogic ==
    /\ pc = "subset"
    /\ LET outs == SubsetOutcomes(visible, flags, flag_count, dirty_cells)
       IN  IF outs = {}
           THEN /\ pc' = "gauss"
                /\ UNCHANGED <<visible, flags, flag_count, dirty_cells, progress, last>>
           ELSE /\ \E r \in outs :
                     /\ visible' = r.visible
                     /\ flags' = r.flags
                     /\ flag_count' = r.flag_count
                     /\ dirty_cells' = r.dirty_cells
                /\ progress' = TRUE
                /\ last' = "subset"
                /\ pc' = "head"
    /\ UNCHANGED <<board, rerun, api, gen, iterations, result, basicLocals, cc>>

\* Strategy 3
SolveByGaussianElimination ==
    /\ pc = "gauss"
    /\ LET r == solve_by_gaussian_elimination(visible, flags, flag_count)
       IN  IF r.progress
           THEN /\ visible' = r.visible
                /\ flags' = r.flags
                /\ flag_count' = r.flag_count
                /\ dirty_cells' = AddDirty(dirty_cells, r.changed_cells)
                /\ progress' = TRUE
                /\ last' = "gaussian"
                /\ pc' = "head"
                /\ cc' = cc
           ELSE \* solve_by_contradiction starts on the first frontier cell
                /\ LET frontier == get_frontier(visible, flags)
                   IN  IF Min(Len(frontier), MAX_CHECK) = 0
                       THEN pc' = "tank" /\ cc' = ContraIdle
                       ELSE pc' = "contra" /\ cc' = CheckStart(visible, 1, frontier[1], TRUE)
                /\ UNCHANGED <<visible, flags, flag_count, dirty_cells, progress, last>>
    /\ UNCHANGED <<board, rerun, api, gen, iterations, result, basicLocals>>

\* check_contradiction visits a key of this round and goes on
ContradictionVisit ==
    /\ pc = "contra"
    /\ \E key \in cc.current :
         /\ ~VisitContradicts(visible, flags, cc, key)
         /\ cc' = VisitNext(visible, flags, cc, key)
    /\ UNCHANGED <<board, rerun, api, gen, visible, flags, flag_count, dirty_cells, progress, iterations,
                   pc, result, last, basicLocals>>

\* a round ends with changed = true below the iteration cap: the next round
ContradictionRound ==
    /\ pc = "contra"
    /\ cc.current = {}
    /\ cc.changed /\ cc.iterations < CONTRA_MAX_ITERATIONS
    /\ cc' = [cc EXCEPT !.current = ClueKeys(visible, cc.to_check),
                        !.to_check = {},
                        !.changed = FALSE,
                        !.iterations = cc.iterations + 1]
    /\ UNCHANGED <<board, rerun, api, gen, visible, flags, flag_count, dirty_cells, progress, iterations,
                   pc, result, last, basicLocals>>

\* check_contradiction returns false: the other hypothesis, the next cell, or the
\* end of Strategy 4 without progress
ContradictionNone ==
    /\ pc = "contra"
    /\ cc.current = {}
    /\ ~(cc.changed /\ cc.iterations < CONTRA_MAX_ITERATIONS)
    /\ LET frontier == get_frontier(visible, flags)
           max_check == Min(Len(frontier), MAX_CHECK)
       IN  IF cc.assume_mine
           THEN pc' = pc /\ cc' = CheckStart(visible, cc.i, frontier[cc.i], FALSE)
           ELSE IF cc.i + 1 <= max_check
           THEN pc' = pc /\ cc' = CheckStart(visible, cc.i + 1, frontier[cc.i + 1], TRUE)
           ELSE pc' = "tank" /\ cc' = ContraIdle
    /\ UNCHANGED <<board, rerun, api, gen, visible, flags, flag_count, dirty_cells, progress, iterations,
                   result, last, basicLocals>>

\* a faulty variant of ContradictionFound: the flags of the overlay are written
\* to the real flags
ContradictionFoundKeepingOverlay ==
    /\ pc = "contra"
    /\ \E key \in cc.current : VisitContradicts(visible, flags, cc, key)
    /\ LET c == get_frontier(visible, flags)[cc.i]
       IN  /\ IF cc.assume_mine
              THEN /\ visible' = simulate_reveal(visible, flags, c)
                   /\ flags' = [d \in DOMAIN flags |->
                                   flags[d] \/ (d # c /\ KeyOf(d) \in cc.sim_flags)]
                   /\ UNCHANGED flag_count
              ELSE /\ flags' = [d \in DOMAIN flags |->
                                   flags[d] \/ d = c \/ KeyOf(d) \in cc.sim_flags]
                   /\ flag_count' = flag_count + 1
                   /\ UNCHANGED visible
           /\ dirty_cells' = AddDirty(dirty_cells, <<c>>)
    /\ progress' = TRUE
    /\ last' = "contradiction"
    /\ pc' = "head"
    /\ cc' = ContraIdle
    /\ UNCHANGED <<board, rerun, api, gen, iterations, result, basicLocals>>

\* check_contradiction returns true: Strategy 4 reveals or flags the candidate
ContradictionFound ==
    /\ pc = "contra"
    /\ \E key \in cc.current : VisitContradicts(visible, flags, cc, key)
    /\ LET c == get_frontier(visible, flags)[cc.i]
       IN  /\ IF cc.assume_mine
              THEN /\ visible' = simulate_reveal(visible, flags, c)
                   /\ UNCHANGED <<flags, flag_count>>
              ELSE /\ flags' = [flags EXCEPT ![c] = TRUE]
                   /\ flag_count' = flag_count + 1
                   /\ UNCHANGED visible
           /\ dirty_cells' = AddDirty(dirty_cells, <<c>>)
    /\ progress' = TRUE
    /\ last' = "contradiction"
    /\ pc' = "head"
    /\ cc' = ContraIdle
    /\ UNCHANGED <<board, rerun, api, gen, iterations, result, basicLocals>>

\* Strategy 5
TankSolver ==
    /\ pc = "tank"
    /\ LET r == tank_solver(visible, flags, bomb_count, flag_count)
       IN  IF r.progress
           THEN /\ visible' = r.visible
                /\ flags' = r.flags
                /\ flag_count' = r.flag_count
                /\ dirty_cells' = AddDirty(dirty_cells, r.changed_cells)
                /\ progress' = TRUE
                /\ last' = "tank"
                /\ pc' = "head"
           ELSE /\ pc' = "global"
                /\ UNCHANGED <<visible, flags, flag_count, dirty_cells, progress, last>>
    /\ UNCHANGED <<board, rerun, api, gen, iterations, result, basicLocals, cc>>

\* Strategy 6; without progress the iteration ends with progress = false
ApplyGlobalMineCount ==
    /\ pc = "global"
    /\ LET r == apply_global_mine_count(visible, flags, bomb_count, flag_count)
       IN  IF r.progress
           THEN /\ visible' = r.visible
                /\ flags' = r.flags
                /\ flag_count' = r.flag_count
                /\ progress' = TRUE
                /\ last' = "global"
           ELSE /\ last' = "none"
                /\ UNCHANGED <<visible, flags, flag_count, progress>>
    /\ pc' = "head"
    /\ UNCHANGED <<board, rerun, api, gen, dirty_cells, iterations, result, basicLocals, cc>>

Next ==
    \/ Begin
    \/ LoopEnter
    \/ Return
    \/ BasicStep
    \/ BasicReturn
    \/ ApplySubsetLogic
    \/ SolveByGaussianElimination
    \/ ContradictionVisit
    \/ ContradictionRound
    \/ ContradictionNone
    \/ ContradictionFound
    \/ TankSolver
    \/ ApplyGlobalMineCount

Spec == SolverInit /\ [][Next]_vars

-----------------------------------------------------------------------------
(* Properties of is_solvable *)

\* the 3x3 zone around start holds no mine
SafeStart == \A c \in Range(StartZone(start)) : ~mines[c]

\* every non-mine cell is revealed
AllSafeRevealed == \A c \in AllCells : ~mines[c] => visible[c] # -1

FlaggedCells == {c \in AllCells : flags[c]}

MineSet == {c \in AllCells : mines[c]}

\* C1: is_solvable returns true if and only if, when its loop has ended, every
\* non-mine cell is revealed -- for every start cell, safe or not.
C1_VerdictIffAllSafeRevealed ==
    pc = "done" => (result <=> AllSafeRevealed)

\* C2: in every state of an is_solvable call every flagged cell is a true mine.
C2_FlagsAreMines ==
    \A c \in AllCells : flags[c] => mines[c]

\* C8: a revealed cell shows its number-grid value and is not flagged, and a
\* flagged cell is hidden -- in every state, so also between strategy steps.
C8_VisibleFlagsConsistent ==
    \A c \in AllCells :
        /\ visible[c] # -1 => (visible[c] = grid[c] /\ ~flags[c])
        /\ flags[c] => visible[c] = -1

\* a state between strategy steps in which Gaussian elimination has just flagged
\* and revealed cells
C8_Witness ==
    /\ pc = "head" /\ last = "gaussian"
    /\ flag_count > 0
    /\ \E c \in AllCells : visible[c] > 0

\* C9: whenever the driver holds the flag count (anywhere but inside
\* apply_basic_rules, which counts in its local fc until it returns), flag_count
\* is the number of flagged cells.
C9_FlagCountMatches ==
    pc # "basic" => flag_count = Cardinality(FlaggedCells)

\* after a step of the tank solver that flagged a cell
C9_Witness ==
    /\ pc = "head" /\ last = "tank"
    /\ flag_count > 0

\* C10: a cell revealed with value 0 has every neighbour revealed or flagged.
C10_ZeroCascadeClosed ==
    \A c \in AllCells :
        visible[c] = 0 => \A n \in NeighborSet(c) : visible[n] # -1 \/ flags[n]

\* between strategy steps, a revealed 0 outside the start zone (the cascade
\* reached it) that is not in a corner
C10_Witness ==
    /\ pc = "head"
    /\ \E c \in AllCells :
         /\ visible[c] = 0 /\ ~mines[c]
         /\ c \notin Range(StartZone(start))
         /\ Cardinality(NeighborSet(c)) >= 5

\* C11: across the steps of one is_solvable call a revealed cell stays revealed and
\* a flagged cell stays flagged, so the number of revealed cells and the flag count
\* never decrease, and neither exceeds width * height.
C11_RevealedAndFlaggedOnlyGrow ==
    [][/\ \A c \in AllCells : /\ visible[c] # -1 => visible'[c] # -1
                              /\ flags[c] => flags'[c]
       /\ RevealedCount(visible') >= RevealedCount(visible)
       /\ flag_count' >= flag_count
       /\ RevealedCount(visible') <= width * height
       /\ flag_count' <= width * height
       /\ Cardinality({c \in AllCells : flags'[c]}) <= width * height]_vars

\* the third iteration begins: two iterations have made progress, cells have been
\* flagged and cells beyond the start zone have been revealed
C11_Witness ==
    /\ pc = "head" /\ iterations >= 2 /\ progress
    /\ flag_count > 0
    /\ RevealedCount(visible) > Len(StartZone(start))

\* The code runs on: a step that can be taken is taken.  For the steps of the driver
\* and of check_contradiction this is weak fairness; for the call as a whole it is
\* WF_vars(Next) with ENABLED <<Next>>_vars written out as pc # "done": the call
\* has returned for good, or it keeps taking steps.
RunsOn ==
    /\ WF_vars(LoopEnter \/ BasicReturn \/ Return)
    /\ WF_vars(ContradictionVisit \/ ContradictionRound \/ ContradictionNone
                  \/ ContradictionFound)
    /\ (<>[](pc = "done") \/ []<><<Next>>_vars)

SpecLive == SolverInit /\ [][Next]_vars /\ RunsOn

\* C12: is_solvable always terminates: the driver loop is entered at most
\* 2 * width * height times, and every call reaches its return, so the inner loops
\* (the visits of apply_basic_rules, the rounds of check_contradiction) all end.
C12_Terminates ==
    /\ [](iterations <= 2 * width * height)
    /\ <>(pc = "done")

\* a call that has returned after three iterations, the last one ended by the
\* contradiction strategy running through its candidates without a result
C12_Witness ==
    /\ pc = "done" /\ iterations >= 3
    /\ last = "none"

\* is_solvable as generate_solvable_board calls it for a 5 x 5 board with
\* bomb_count = 3 and safe_radius = 1 around (2, 2)
CentreStartCase ==
    /\ width = 5 /\ height = 5
    /\ start = <<2, 2>>
    /\ bomb_count = 3
    /\ \A c \in Centre3x3 : ~mines[c]

\* a placement that cannot be completed without a guess: with these clues the
\* mines could as well be at (0,1), (0,2), (0,4)
GuessPlacement == {<<0, 0>>, <<0, 2>>, <<0, 3>>}

\* C5: every placement of three mines outside the 3x3 centre of a 5 x 5 board is
\* accepted by is_solvable from start (2, 2), so the generator succeeds on its
\* first attempt.
C5_EveryPlacementAccepted ==
    (CentreStartCase /\ pc = "done") => result

\* C5, amended: such a placement is accepted exactly when the loop has revealed
\* all 22 non-mine cells, and the placement that needs a guess is rejected
\* whatever the iteration order.
C5_AcceptedIffAllRevealed ==
    (CentreStartCase /\ pc = "done") =>
        /\ result <=> AllSafeRevealed
        /\ MineSet = GuessPlacement => ~result

\* is_solvable has returned false on the placement that needs a guess
C5_Witness ==
    /\ CentreStartCase /\ pc = "done"
    /\ MineSet = GuessPlacement
    /\ ~result /\ ~AllSafeRevealed

-----------------------------------------------------------------------------
(* is_solvable called a second time on the same board and start *)

Rerun ==
    /\ pc = "done"
    /\ run = 1
    /\ run' = 2
    /\ first' = result
    /\ visible' = Hidden(width, height)
    /\ flags' = NoFlags(width, height)
    /\ flag_count' = 0
    /\ dirty_cells' = {}
    /\ progress' = TRUE
    /\ iterations' = 0
    /\ pc' = "entry"
    /\ result' = FALSE
    /\ last' = "call"
    /\ UNCHANGED <<board, gen, api, basicLocals, cc>>

NextRerun ==
    \/ Next
    \/ Rerun

SpecRerun == SolverInit /\ [][NextRerun]_vars

\* C3: the verdict of is_solvable on a board and start does not depend on the order
\* in which the hash collections are iterated: a second call returns what the
\* first returned.
C3_SameVerdictOnRerun ==
    (run = 2 /\ pc = "done") => result = first

-----------------------------------------------------------------------------
(* board.rs: place_mines_random, one draw at a time *)

max_placement_attempts == 100000

AbsDiff(a, b) == IF a >= b THEN a - b ELSE b - a

\* a faulty variant of InSafeZone: the edge of the zone is not excluded
InsideSafeZone(c, safe, r) ==
    AbsDiff(c[1], safe[1]) < r /\ AbsDiff(c[2], safe[2]) < r

\* "if dx <= safe_radius && dy <= safe_radius { continue; }"
InSafeZone(c, safe, r) ==
    AbsDiff(c[1], safe[1]) <= r /\ AbsDiff(c[2], safe[2]) <= r

\* the mine sets place_mines_random can return: the draws that place a mine pick
\* distinct cells outside the safe zone, and the loop stops at bomb_count mines or,
\* short of that, when the draws are used up
PlacementOutcomes(w, h, bombs, safe, r) ==
    {S \in SUBSET {c \in Cells(w, h) : ~InSafeZone(c, safe, r)} : Cardinality(S) <= bombs}

\* place_mines_random is called: Mines::new, placed = 0, attempts = 0
PlaceInit ==
    /\ width = PlaceWidth
    /\ height = PlaceHeight
    /\ start \in Cells(width, height)
    /\ safe_radius \in 0 .. MaxRadius
    /\ gen_bomb_count \in 0 .. MaxBombs
    /\ mines = MinesOf(width, height, {})
    /\ grid = calculate_numbers(width, height, MinesOf(width, height, {}))
    /\ nc = NeighborCache(width, height)
    /\ placed = 0
    /\ placement_attempts = 0
    /\ gpc = "place"
    /\ max_attempts = 0
    /\ attempts = 0
    /\ verdicts = << >>
    /\ rng = {}
    /\ ret = [mines |-> << >>, grid |-> << >>, attempts |-> 0, success |-> FALSE]
    /\ SolverEntry
    /\ run = 1
    /\ first = FALSE
    /\ NoCall

\* one pass of "while placed < bomb_count && attempts < max_placement_attempts":
\* rng.gen_range(width), rng.gen_range(height) draw any cell
Draw ==
    /\ gpc = "place"
    /\ placed < gen_bomb_count /\ placement_attempts < max_placement_attempts
    /\ placement_attempts' = placement_attempts + 1
    /\ \E x \in 0 .. width - 1, y \in 0 .. height - 1 :
         IF InSafeZone(<<x, y>>, start, safe_radius)
         THEN UNCHANGED <<mines, placed>>
         ELSE IF ~mines[<<x, y>>]
         THEN /\ mines' = [mines EXCEPT ![<<x, y>>] = TRUE]
              /\ placed' = placed + 1
         ELSE UNCHANGED <<mines, placed>>
    /\ UNCHANGED <<width, height, grid, nc, start, solver, rerun, api, gen_bomb_count,
                   safe_radius, max_attempts, attempts, gpc, verdicts, rng, ret>>

\* the loop is over: place_mines_random returns mines
PlaceReturn ==
    /\ gpc = "place"
    /\ ~(placed < gen_bomb_count /\ placement_attempts < max_placement_attempts)
    /\ gpc' = "placed"
    /\ UNCHANGED <<board, solver, rerun, api, gen_bomb_count, safe_radius, placed,
                   placement_attempts, max_attempts, attempts, verdicts, rng, ret>>

NextPlace ==
    \/ Draw
    \/ PlaceReturn

SpecPlace == PlaceInit /\ [][NextPlace]_vars

\* the Chebyshev distance of two cells
Chebyshev(c, d) ==
    LET dx == IF c[1] >= d[1] THEN c[1] - d[1] ELSE d[1] - c[1]
        dy == IF c[2] >= d[2] THEN c[2] - d[2] ELSE d[2] - c[2]
    IN  IF dx >= dy THEN dx ELSE dy

-----------------------------------------------------------------------------
(* board.rs: generate_solvable_board with any oracle *)

\* generate_solvable_board is called: rng = WasmRng::new(), attempts = 0
GenInit ==
    /\ width = PlaceWidth
    /\ height = PlaceHeight
    /\ start \in Cells(width, height)
    /\ safe_radius \in 0 .. MaxRadius
    /\ gen_bomb_count \in 0 .. MaxBombs
    /\ max_attempts \in 0 .. MaxAttempts
    /\ rng = PlacementOutcomes(width, height, gen_bomb_count, start, safe_radius)
    /\ mines = MinesOf(width, height, {})
    /\ grid = calculate_numbers(width, height, MinesOf(width, height, {}))
    /\ nc = NeighborCache(width, height)
    /\ placed = 0
    /\ placement_attempts = 0
    /\ attempts = 0
    /\ gpc = "loop"
    /\ verdicts = << >>
    /\ ret = [mines |-> << >>, grid |-> << >>, attempts |-> 0, success |-> FALSE]
    /\ SolverEntry
    /\ run = 1
    /\ first = FALSE
    /\ NoCall

\* "attempts += 1; let mines = place_mines_random(..); let grid = calculate_numbers(..)"
\* and the call of is_solvable_fn (attempts stays far below the u32 range)
GenPlace ==
    /\ gpc = "loop"
    /\ attempts' = attempts + 1
    /\ \E S \in rng :
         /\ mines' = MinesOf(width, height, S)
         /\ grid' = calculate_numbers(width, height, MinesOf(width, height, S))
    /\ gpc' = "oracle"
    /\ pc' = "entry"
    /\ result' = FALSE
    /\ UNCHANGED <<width, height, nc, start, visible, flags, flag_count, dirty_cells,
                   progress, iterations, last, basicLocals, cc, rerun, api, gen_bomb_count,
                   safe_radius, placed, placement_attempts, max_attempts, verdicts,
                   rng, ret>>

\* is_solvable_fn is any Fn: it returns true or false
OracleReturns ==
    /\ gpc = "oracle" /\ pc = "entry"
    /\ result' \in BOOLEAN
    /\ pc' = "done"
    /\ UNCHANGED <<board, visible, flags, flag_count, dirty_cells, progress, iterations,
                   last, basicLocals, cc, rerun, api, gen>>

BoardResult(ok) ==
    [mines |-> mines, grid |-> grid, attempts |-> attempts, success |-> ok]

\* "if is_solvable_fn(..) { return BoardResult { mines, grid, attempts, success: true } }"
GenSuccess ==
    /\ gpc = "oracle" /\ pc = "done"
    /\ result
    /\ verdicts' = Append(verdicts, result)
    /\ ret' = BoardResult(TRUE)
    /\ gpc' = "returned"
    /\ UNCHANGED <<board, solver, rerun, api, gen_bomb_count, safe_radius, placed,
                   placement_attempts, max_attempts, attempts, rng>>

\* "if attempts >= max_attempts { return BoardResult { .., success: false } }"
GenFailure ==
    /\ gpc = "oracle" /\ pc = "done"
    /\ ~result
    /\ attempts >= max_attempts
    /\ verdicts' = Append(verdicts, result)
    /\ ret' = BoardResult(FALSE)
    /\ gpc' = "returned"
    /\ UNCHANGED <<board, solver, rerun, api, gen_bomb_count, safe_radius, placed,
                   placement_attempts, max_attempts, attempts, rng>>

\* neither return is taken: the loop goes round
GenRetry ==
    /\ gpc = "oracle" /\ pc = "done"
    /\ ~result
    /\ ~(attempts >= max_attempts)
    /\ verdicts' = Append(verdicts, result)
    /\ gpc' = "loop"
    /\ UNCHANGED <<board, solver, rerun, api, gen_bomb_count, safe_radius, placed,
                   placement_attempts, max_attempts, attempts, rng, ret>>

NextGen ==
    \/ GenPlace
    \/ OracleReturns
    \/ GenSuccess
    \/ GenFailure
    \/ GenRetry

SpecGen == GenInit /\ [][NextGen]_vars

\* C4: the generator stops at the first placement the oracle accepts or after the
\* last allowed one and returns that placement: the mine grid last placed with its
\* numbers, attempts = the placements made, success = the oracle's verdict on it;
\* an oracle that rejects everything gives attempts = max_attempts, one that
\* accepts the first board gives attempts = 1.
C4_ReturnsLastPlacement ==
    gpc = "returned" =>
        /\ ret.mines = mines
        /\ ret.grid = calculate_numbers(width, height, ret.mines)
        /\ ret.attempts = Len(verdicts)
        /\ ret.success = verdicts[Len(verdicts)]
        /\ \A i \in 1 .. Len(verdicts) - 1 : ~verdicts[i]
        /\ ~ret.success => ret.attempts = max_attempts
        /\ verdicts[1] => ret.attempts = 1

\* C6: the generator makes at most max_attempts placements and calls the oracle
\* at most max_attempts times, for every max_attempts, 0 included.
C6_AtMostMaxAttempts ==
    /\ attempts <= max_attempts
    /\ Len(verdicts) <= max_attempts
    /\ gpc = "returned" => ret.attempts <= max_attempts

-----------------------------------------------------------------------------
(* Soundness, progress and the order of the strategies *)

\* no mine in the clipped 3x3 neighbourhood of the start cell
NoMineNearStart == \A c \in AllCells : Chebyshev(c, start) <= 1 => ~mines[c]

\* C18: on a board whose numbers are calculate_numbers of its mines and whose start
\* cell has no mine in its clipped 3x3 neighbourhood, every revealed cell is a
\* non-mine, in every state of the call.
C18_NoMineRevealed ==
    NoMineNearStart => \A c \in AllCells : visible[c] # -1 => ~mines[c]

\* such a board with mines, after the strategies have revealed cells beyond the
\* start zone and its cascade in three iterations or more
C18_Witness ==
    /\ NoMineNearStart
    /\ MineSet # {}
    /\ pc = "head" /\ iterations >= 3 /\ last \in {"subset", "gaussian", "tank", "global"}
    /\ \E c \in AllCells : visible[c] # -1 /\ Chebyshev(c, start) >= 2

\* a cell that was hidden and unflagged is revealed or flagged by the step
Acted ==
    \E c \in AllCells : visible[c] = -1 /\ ~flags[c] /\ (visible'[c] # -1 \/ flags'[c])

\* revealed + flagged
Settled(vis, flg) == RevealedCount(vis) + Cardinality({c \in DOMAIN flg : flg[c]})

\* C19: progress detection is exact.  A strategy call that reports progress has
\* revealed or flagged a cell that was hidden and unflagged; one that reports none
\* leaves visible, flags and the flag count as they were; revealed + flagged grows
\* with every such cell and never shrinks; and the loop is left with progress =
\* false, that is, because an iteration made no progress and not because of the cap.
C19_ProgressExact ==
    [][/\ pc \in {"subset", "gauss", "contra", "tank", "global"} =>
            IF progress' THEN Acted /\ pc' = "head"
            ELSE UNCHANGED <<visible, flags, flag_count>>
       /\ (pc = "basic" /\ pc' = "basic") =>
            /\ (basic_progress' /\ ~basic_progress) => Acted
            /\ basic_progress => basic_progress'
            /\ ~basic_progress' => (UNCHANGED <<visible, flags>> /\ fc' = flag_count)
       /\ (pc = "basic" /\ pc' # "basic") =>
            /\ progress' = basic_progress
            /\ UNCHANGED <<visible, flags>>
            /\ ~basic_progress => UNCHANGED flag_count
       /\ Acted => Settled(visible', flags') > Settled(visible, flags)
       /\ Settled(visible', flags') >= Settled(visible, flags)
       /\ pc' = "done" => (~progress' /\ iterations' < 2 * width * height)]_vars

\* a call that has returned after four iterations in which cells were flagged and
\* revealed, the last iteration being the one without progress
C19_Witness ==
    /\ pc = "done" /\ iterations >= 4 /\ last = "none" /\ ~progress
    /\ flag_count > 0

\* C20: the strategies of an iteration run in the order basic, subset, Gaussian,
\* contradiction, tank, global count.  A strategy starts only while no earlier one
\* of the iteration has reported progress; the first one that reports progress
\* ends the iteration and the next iteration starts at the basic rules; the loop
\* is left at the first iteration in which none reports progress.
C20_StrategyOrder ==
    [][/\ pc = "head" =>
            /\ pc' = (IF progress THEN "basic" ELSE "done")
            /\ ~progress'
       /\ pc \in {"basic", "subset", "gauss", "contra", "tank", "global"} => ~progress
       /\ (pc = "basic" /\ pc' # pc) =>
            IF progress' THEN pc' = "head" /\ last' = "basic" ELSE pc' = "subset"
       /\ pc = "subset" =>
            IF progress' THEN pc' = "head" /\ last' = "subset" ELSE pc' = "gauss"
       /\ pc = "gauss" =>
            IF progress' THEN pc' = "head" /\ last' = "gaussian"
            ELSE pc' \in {"contra", "tank"}
       /\ (pc = "contra" /\ pc' # pc) =>
            IF progress' THEN pc' = "head" /\ last' = "contradiction" ELSE pc' = "tank"
       /\ pc = "tank" =>
            IF progress' THEN pc' = "head" /\ last' = "tank" ELSE pc' = "global"
       /\ pc = "global" =>
            /\ pc' = "head"
            /\ last' = (IF progress' THEN "global" ELSE "none")]_vars

\* the second iteration or a later one has gone through all six strategies, and
\* the last of them made progress
C20_Witness ==
    /\ pc = "head" /\ iterations >= 2
    /\ last = "global" /\ progress

-----------------------------------------------------------------------------
(* solver.rs: get_hint *)

\* Phase 1: "Safe frontier cells (adjacent to revealed cells)", in push order
safe_frontier(g, vis, flg, m) ==
    LET revealed_count(c) ==
            Cardinality({i \in 1 .. Len(Neighbors(c)) : vis[Neighbors(c)[i]] > -1})
        cand == SelectSeq(ScanOrder(width, height),
                          LAMBDA c : /\ vis[c] = -1 /\ ~flg[c] /\ ~m[c]
                                     /\ revealed_count(c) > 0)
    IN  [i \in 1 .. Len(cand) |->
            [x |-> cand[i][1], y |-> cand[i][2],
             score |-> revealed_count(cand[i]) + (IF g[cand[i]] = 0 THEN 10 ELSE 0)]]

\* a faulty variant of safe_island: mines.get is not asked
safe_island_unchecked(g, vis, flg, m) ==
    LET cand == SelectSeq(ScanOrder(width, height), LAMBDA c : vis[c] = -1 /\ ~flg[c])
    IN  [i \in 1 .. Len(cand) |->
            [x |-> cand[i][1], y |-> cand[i][2],
             score |-> IF g[cand[i]] = 0 THEN 10 ELSE 0]]

\* Phase 2: "Any safe cell", in push order
safe_island(g, vis, flg, m) ==
    LET cand == SelectSeq(ScanOrder(width, height),
                          LAMBDA c : vis[c] = -1 /\ ~flg[c] /\ ~m[c])
    IN  [i \in 1 .. Len(cand) |->
            [x |-> cand[i][1], y |-> cand[i][2],
             score |-> IF g[cand[i]] = 0 THEN 10 ELSE 0]]

\* a faulty variant of SortByScore: the list is left in push order
Unsorted(hints) == hints

\* sort_by(|a, b| b.score.cmp(&a.score)): a stable sort, scores descending
SortByScore(hints) ==
    LET before(i) == {j \in 1 .. Len(hints) :
                         \/ hints[j].score > hints[i].score
                         \/ hints[j].score = hints[i].score /\ j < i}
    IN  [k \in 1 .. Len(hints) |->
            hints[CHOOSE i \in 1 .. Len(hints) : Cardinality(before(i)) = k - 1]]

\* Option<Hint>: << >> is None, <<hint>> is Some(hint); remove(0) takes the first
get_hint(g, vis, flg, m) ==
    IF safe_frontier(g, vis, flg, m) # << >>
    THEN <<SortByScore(safe_frontier(g, vis, flg, m))[1]>>
    ELSE IF safe_island(g, vis, flg, m) # << >>
    THEN <<SortByScore(safe_island(g, vis, flg, m))[1]>>
    ELSE << >>

-----------------------------------------------------------------------------
(* The exported functions as the host calls them (lib.rs) *)

\* a faulty variant of cell_key_halves: (x as u32) << 8
cell_key_shifted_by_8(x, y) ==
    <<BitOr((x \div 256) % TwoTo16, (y \div TwoTo16) % TwoTo16),
      BitOr((x % 256) * 256, y % TwoTo16)>>

\* a u32 key as its two 16-bit halves <<high, low>>:
\* ((x as u32) << 16) | (y as u32)
cell_key_halves(x, y) ==
    <<BitOr(x % TwoTo16, (y \div TwoTo16) % TwoTo16), BitOr(0, y % TwoTo16)>>

\* ((key >> 16) as usize, (key & 0xFFFF) as usize)
decode_key_halves(key) == <<key[1], key[2] % TwoTo16>>

\* coordinates the key functions are tried on: the ends and the middle of the
\* 16-bit range, and two values beyond it
KeySamples == {0, 1, 2, 255, 256, 32767, 32768, 65534, 65535, 65536, 65537}

\* the host has a mine grid; no cache, no numbers yet
ApiInit ==
    /\ \E w \in 1 .. CacheWidth, h \in 1 .. CacheHeight :
         /\ width = w
         /\ height = h
         /\ \E S \in (IF w <= ApiWidth /\ h <= ApiHeight THEN SUBSET Cells(w, h) ELSE {{}}) :
              mines = MinesOf(w, h, S)
         /\ grid = [c \in Cells(w, h) |-> 0]
    /\ nc = << >>
    /\ start = <<0, 0>>
    /\ SolverEntry
    /\ run = 1
    /\ first = FALSE
    /\ NoCall
    /\ NoGenerator

\* NeighborCache::new(width, height)
NeighborCacheNew ==
    /\ call = "none"
    /\ nc' = NeighborCache(width, height)
    /\ call' = "NeighborCache::new"
    /\ UNCHANGED <<width, height, mines, grid, start, solver, rerun, gen, arg, out>>

\* wasm_calculate_numbers
CalculateNumbers ==
    /\ call = "NeighborCache::new"
    /\ grid' = calculate_numbers(width, height, mines)
    /\ call' = "calculate_numbers"
    /\ arg' = 0
    /\ UNCHANGED <<width, height, mines, nc, start, solver, rerun, gen, out>>

\* the game goes on in the host: the player reveals a cell that is no mine, or
\* flags a hidden cell (arg counts the moves)
HostMove ==
    /\ call = "calculate_numbers"
    /\ arg < MaxMoves
    /\ \E c \in AllCells :
         /\ visible[c] = -1 /\ ~flags[c]
         /\ \/ ~mines[c] /\ visible' = [visible EXCEPT ![c] = grid[c]] /\ flags' = flags
            \/ flags' = [flags EXCEPT ![c] = TRUE] /\ visible' = visible
    /\ arg' = arg + 1
    /\ UNCHANGED <<board, flag_count, dirty_cells, progress, iterations, pc, result, last,
                   basicLocals, cc, rerun, gen, call, out>>

\* wasm_get_hint
GetHint ==
    /\ call = "calculate_numbers"
    /\ out' = get_hint(grid, visible, flags, mines)
    /\ call' = "get_hint"
    /\ UNCHANGED <<board, solver, rerun, gen, arg>>

\* cell_key(x, y) and decode_key of its result
CellKey ==
    /\ call = "none"
    /\ width = 1 /\ height = 1
    /\ \E x \in KeySamples, y \in KeySamples :
         /\ arg' = <<x, y>>
         /\ out' = [key |-> cell_key_halves(x, y),
                    cell |-> decode_key_halves(cell_key_halves(x, y))]
    /\ call' = "cell_key"
    /\ UNCHANGED <<board, solver, rerun, gen>>

NextApi ==
    \/ NeighborCacheNew
    \/ CalculateNumbers
    \/ HostMove
    \/ GetHint
    \/ CellKey

SpecApi == ApiInit /\ [][NextApi]_vars

-----------------------------------------------------------------------------
(* Properties of the exported functions *)

C14_NeighborsAreTheAdjacentCells ==
    call \in {"NeighborCache::new", "calculate_numbers", "get_hint"} =>
        \A c \in AllCells :
            LET edges == (IF c[1] \in {0, width - 1} THEN 1 ELSE 0)
                         + (IF c[2] \in {0, height - 1} THEN 1 ELSE 0)
            IN  /\ \A i \in 1 .. Len(nc[c]) :
                       /\ nc[c][i] \in AllCells
                       /\ Chebyshev(nc[c][i], c) = 1
                       /\ \A j \in 1 .. Len(nc[c]) : nc[c][j] = nc[c][i] => j = i
                /\ \A d \in AllCells :
                       Chebyshev(d, c) = 1 => \E i \in 1 .. Len(nc[c]) : nc[c][i] = d
                /\ (width >= 3 /\ height >= 3) =>
                       Len(nc[c]) = (IF edges = 2 THEN 3 ELSE IF edges = 1 THEN 5 ELSE 8)

\* the cache of a 5 x 5 grid: corners, edge cells and inner cells
C14_Witness ==
    /\ call = "NeighborCache::new"
    /\ width = 5 /\ height = 5
    /\ Len(nc[<<0, 0>>]) = 3 /\ Len(nc[<<4, 2>>]) = 5 /\ Len(nc[<<2, 2>>]) = 8

\* C15: on coordinates below 2^16 cell_key is one-to-one and onto the 32-bit keys
\* and decode_key is its inverse: the key's high half is x and its low half is y
\* (so every key is the key of the cell made of its halves), decode_key gives
\* (x, y) back, and two sample cells with the same key are the same cell.  Where
\* the key is below 2^31 (x < 2^15) the integer form used by the solver agrees.
C15_KeyRoundTrip ==
    (call = "cell_key" /\ arg[1] < TwoTo16 /\ arg[2] < TwoTo16) =>
        /\ out.key = arg
        /\ out.cell = arg
        /\ \A x \in KeySamples, y \in KeySamples :
               (x < TwoTo16 /\ y < TwoTo16 /\ cell_key_halves(x, y) = out.key)
                   => <<x, y>> = arg
        /\ arg[1] < 32768 =>
               /\ cell_key(arg[1], arg[2]) = out.key[1] * TwoTo16 + out.key[2]
               /\ decode_key(cell_key(arg[1], arg[2])) = arg

\* the largest cell, (65535, 65535), has been through cell_key and decode_key
C15_Witness ==
    /\ call = "cell_key"
    /\ arg = <<65535, 65535>>
    /\ out.cell = arg

\* the cells of get_hint's first phase: hidden, unflagged, no mine, next to a
\* revealed cell
HintFrontier ==
    {c \in AllCells : /\ visible[c] = -1 /\ ~flags[c] /\ ~mines[c]
                      /\ \E n \in AllCells : Chebyshev(c, n) = 1 /\ visible[n] # -1}

\* the cells of its second phase: hidden, unflagged, no mine
HintIsland == {c \in AllCells : visible[c] = -1 /\ ~flags[c] /\ ~mines[c]}

\* the score of cell c in phase 1 (near = TRUE) and in phase 2
HintScore(c, near) ==
    (IF near THEN Cardinality({n \in AllCells : Chebyshev(c, n) = 1 /\ visible[n] # -1})
     ELSE 0)
    + (IF grid[c] = 0 THEN 10 ELSE 0)

\* h is the cell of S with the highest score, the first such cell in scan order
\* (x outer, y inner)
IsBest(h, S, near) ==
    /\ <<h.x, h.y>> \in S
    /\ h.score = HintScore(<<h.x, h.y>>, near)
    /\ \A d \in S :
         \/ HintScore(d, near) < h.score
         \/ HintScore(d, near) = h.score /\ d[1] * height + d[2] >= h.x * height + h.y

\* C16: get_hint returns the best candidate of the first phase that has any: of
\* the hidden, unflagged non-mine cells next to a revealed cell, scored by the
\* number of revealed neighbours plus 10 for a 0 cell; failing those, of all
\* hidden, unflagged non-mine cells, scored 10 for a 0 cell and 0 otherwise; the
\* first in scan order among equal scores.
C16_HintIsBestOfFirstPhase ==
    call = "get_hint" =>
        IF HintFrontier # {} THEN Len(out) = 1 /\ IsBest(out[1], HintFrontier, TRUE)
        ELSE IF HintIsland # {} THEN Len(out) = 1 /\ IsBest(out[1], HintIsland, FALSE)
        ELSE out = << >>

\* a phase-1 hint that the sort moved to the front: a candidate earlier in scan
\* order scores less, and a later one scores the same
C16_Witness ==
    /\ call = "get_hint" /\ out # << >>
    /\ \E d, e \in HintFrontier :
         /\ d[1] * height + d[2] < out[1].x * height + out[1].y
         /\ HintScore(d, TRUE) < out[1].score
         /\ e[1] * height + e[2] > out[1].x * height + out[1].y
         /\ HintScore(e, TRUE) = out[1].score

\* C17: the cell get_hint returns is hidden, unflagged and no mine, and get_hint
\* returns nothing exactly when no hidden, unflagged non-mine cell exists.
C17_HintIsSafeAndFoundIfAny ==
    call = "get_hint" =>
        /\ \A i \in 1 .. Len(out) :
               /\ <<out[i].x, out[i].y>> \in AllCells
               /\ visible[<<out[i].x, out[i].y>>] = -1
               /\ ~flags[<<out[i].x, out[i].y>>]
               /\ ~mines[<<out[i].x, out[i].y>>]
        /\ out = << >> <=>
               ~\E c \in AllCells : visible[c] = -1 /\ ~flags[c] /\ ~mines[c]

\* get_hint has nothing to return on a board with mines whose two non-mine cells
\* are taken, one revealed and one flagged by mistake
C17_Witness ==
    /\ call = "get_hint" /\ out = << >>
    /\ \E c, d \in AllCells : /\ ~mines[c] /\ visible[c] # -1
                               /\ ~mines[d] /\ flags[d]
    /\ \E c \in AllCells : mines[c] /\ visible[c] = -1 /\ ~flags[c]

-----------------------------------------------------------------------------
(* The dirty set and the single strategies *)

\* the cells a step reveals or flags
ChangedCells == {c \in AllCells : visible'[c] # visible[c] \/ flags'[c] # flags[c]}

\* the keys of the neighbours of the cells of S
KeysAround(S) == UNION {{KeyOf(n) : n \in NeighborSet(c)} : c \in S}

\* new is old plus the neighbours of the cells the step acted on: of a non-empty
\* set S of changed cells that leaves out only cells revealed by the zero cascade
\* (whose neighbours simulate_reveal does not report); with = TRUE when the keys
\* of the cells of S themselves are added too
GrowsAroundActedOn(old, new, with) ==
    \E S \in SUBSET ChangedCells :
        /\ S # {}
        /\ \A c \in ChangedCells \ S :
               /\ visible'[c] # -1
               /\ \E n \in NeighborSet(c) : n \in ChangedCells /\ visible'[n] = 0
        /\ new = old \cup KeysAround(S) \cup (IF with THEN {KeyOf(c) : c \in S} ELSE {})

\* C21: the dirty-set contract of the driver.  After progress by Strategy 1 or 2
\* the dirty set is the set the strategy returned, the neighbours of the cells it
\* flagged or handed to simulate_reveal; after progress by Strategy 3, 4 or 5 it is
\* the old set plus those cells and their neighbours; after progress by Strategy 6
\* and after a call without progress it is unchanged.
C21_DirtySetContract ==
    [][/\ (pc = "basic" /\ pc' = "basic") =>
            IF ChangedCells = {} THEN new_dirty' = new_dirty
            ELSE GrowsAroundActedOn(new_dirty, new_dirty', FALSE)
       /\ (pc = "basic" /\ pc' # "basic") =>
            dirty_cells' = (IF progress' THEN new_dirty ELSE dirty_cells)
       /\ pc = "subset" =>
            IF progress' THEN GrowsAroundActedOn({}, dirty_cells', FALSE)
            ELSE dirty_cells' = dirty_cells
       /\ pc \in {"gauss", "contra", "tank"} =>
            IF progress' THEN GrowsAroundActedOn(dirty_cells, dirty_cells', TRUE)
            ELSE dirty_cells' = dirty_cells
       /\ pc = "global" => dirty_cells' = dirty_cells]_vars

\* the tank solver has made progress in a second or later iteration and the
\* dirty set has been augmented
C21_Witness ==
    /\ pc = "head" /\ iterations >= 2 /\ last = "tank"
    /\ Cardinality(dirty_cells) >= 6

\* the hidden unflagged cells next to c
HiddenAround(c) ==
    {n \in AllCells : Chebyshev(n, c) = 1 /\ visible[n] = -1 /\ ~flags[n]}

\* the number of flagged cells next to c
FlagsAround(c) == Cardinality({n \in AllCells : Chebyshev(n, c) = 1 /\ flags[n]})

\* what the visit of dirty cell c does to the board and to the locals of
\* apply_basic_rules
BasicRuleAt(c) ==
    IF visible[c] > 0 /\ HiddenAround(c) # {}
       /\ visible[c] = FlagsAround(c) + Cardinality(HiddenAround(c))
    THEN /\ flags' = [d \in AllCells |-> flags[d] \/ d \in HiddenAround(c)]
         /\ visible' = visible
         /\ fc' = fc + Cardinality(HiddenAround(c))
         /\ basic_progress'
         /\ new_dirty' = new_dirty \cup KeysAround(HiddenAround(c))
    ELSE IF visible[c] > 0 /\ HiddenAround(c) # {} /\ visible[c] = FlagsAround(c)
    THEN /\ flags' = flags
         /\ fc' = fc
         /\ \A n \in HiddenAround(c) : visible'[n] = grid[n]
         /\ \A d \in AllCells : visible[d] # -1 => visible'[d] = visible[d]
         /\ basic_progress'
         /\ new_dirty' = new_dirty \cup KeysAround(HiddenAround(c))
    ELSE UNCHANGED <<visible, flags, fc, new_dirty, basic_progress>>

\* no later visit of key k can act: its cell is flagged, a revealed 0, or a clue
\* without a hidden unflagged neighbour
Spent(k) ==
    \/ flags'[decode_key(k)]
    \/ visible'[decode_key(k)] = 0
    \/ /\ visible'[decode_key(k)] > 0
       /\ \A n \in NeighborSet(decode_key(k)) : visible'[n] # -1 \/ flags'[n]

\* C22: apply_basic_rules visits the dirty cells one by one; at a clue c with
\* h > 0 hidden unflagged neighbours and f flagged ones it flags them all if
\* V[c] = f + h, else reveals them all (with the cascade) if V[c] = f, and does
\* nothing otherwise; it reports progress exactly when a visit flagged or
\* revealed, and then returns the neighbours of the cells acted on as the new
\* dirty set (with the new flag count), otherwise the dirty set it was given.
C22_BasicRules ==
    [][/\ (pc = "head" /\ pc' = "basic") =>
            /\ ~basic_progress' /\ new_dirty' = {} /\ fc' = flag_count
            /\ todo' \subseteq dirty_cells
            /\ \A k \in dirty_cells \ todo' : Spent(k)
       /\ (pc = "basic" /\ pc' = "basic") =>
            /\ \E key \in todo : key \notin todo' /\ BasicRuleAt(decode_key(key))
            /\ todo' \subseteq todo
            /\ \A k \in todo \ todo' : Spent(k) \/ BasicRuleAt(decode_key(k))
            /\ basic_progress' = (basic_progress \/ ChangedCells # {})
       /\ (pc = "basic" /\ pc' # "basic") =>
            /\ todo = {}
            /\ UNCHANGED <<visible, flags>>
            /\ progress' = basic_progress
            /\ dirty_cells' = (IF basic_progress THEN new_dirty ELSE dirty_cells)
            /\ flag_count' = (IF basic_progress THEN fc ELSE flag_count)]_vars

\* a pass of apply_basic_rules in which a visit has flagged cells and clues are
\* still to be visited
C22_Witness ==
    /\ pc = "basic" /\ basic_progress
    /\ fc > flag_count
    /\ todo # {}
    /\ iterations >= 2

\* the revealed-number cells within Chebyshev distance d of some dirty cell
CluesNearDirty(d) ==
    {KeyOf(c) : c \in {n \in AllCells :
                          /\ visible[n] > 0
                          /\ \E k \in dirty_cells : Chebyshev(n, decode_key(k)) <= d}}

\* C24 as stated: the candidate constraint cells of the subset strategy are
\* exactly the revealed-number cells within Chebyshev distance 2 of some dirty
\* cell.
C24_CandidatesWithinDistance2 ==
    pc = "subset" => ConstraintKeys(visible, dirty_cells) = CluesNearDirty(2)

\* C24, amended: the candidate constraint cells of the subset strategy are
\* exactly the revealed-number cells that are dirty or next to a dirty cell
\* (Chebyshev distance at most 1); all of them lie within distance 2.
C24_CandidatesWithinDistance1 ==
    pc = "subset" =>
        /\ ConstraintKeys(visible, dirty_cells) = CluesNearDirty(1)
        /\ ConstraintKeys(visible, dirty_cells) \subseteq CluesNearDirty(2)

\* the subset strategy is entered with a candidate that is not dirty itself and
\* with a revealed number two cells from the dirty set that is no candidate
C24_Witness ==
    /\ pc = "subset"
    /\ ConstraintKeys(visible, dirty_cells) \ dirty_cells # {}
    /\ CluesNearDirty(2) \ CluesNearDirty(1) # {}

\* c is a constraint of the subset strategy: a candidate with a hidden
\* unflagged neighbour and remaining >= 0
IsConstraint(c) ==
    /\ KeyOf(c) \in CluesNearDirty(1)
    /\ HiddenAround(c) # {}
    /\ visible[c] - FlagsAround(c) >= 0

\* the ordered pairs (A, B) on which the subset strategy can act
ActingPairs ==
    {p \in AllCells \X AllCells :
        /\ p[1] # p[2] /\ Chebyshev(p[1], p[2]) <= 2
        /\ IsConstraint(p[1]) /\ IsConstraint(p[2])
        /\ HiddenAround(p[1]) \subseteq HiddenAround(p[2])
        /\ HiddenAround(p[1]) # HiddenAround(p[2])
        /\ (visible[p[2]] - FlagsAround(p[2])) - (visible[p[1]] - FlagsAround(p[1]))
              \in {0, Cardinality(HiddenAround(p[2]) \ HiddenAround(p[1]))}}

\* the step applies the deduction of the pair (a, b) and nothing else
AppliesPair(a, b) ==
    LET D == HiddenAround(b) \ HiddenAround(a)
    IN  IF (visible[b] - FlagsAround(b)) - (visible[a] - FlagsAround(a)) = 0
        THEN /\ flags' = flags /\ flag_count' = flag_count
             /\ \A c \in D : visible'[c] = grid[c]
             /\ \A c \in ChangedCells \ D :
                    /\ visible[c] = -1 /\ visible'[c] = grid[c]
                    /\ \E n \in NeighborSet(c) : n \in ChangedCells /\ visible'[n] = 0
        ELSE /\ visible' = visible
             /\ flags' = [c \in AllCells |-> flags[c] \/ c \in D]
             /\ flag_count' = flag_count + Cardinality(D)

\* C23: apply_subset_logic acts on constraints A and B whose anchors are within
\* Chebyshev distance 2 and with hidden(A) a strict subset of hidden(B): it
\* reveals the cells of hidden(B) minus hidden(A) if remaining(B) - remaining(A)
\* is 0 and flags them if it equals their number; one call applies the
\* deduction of one such pair if there is any, and of no pair otherwise.
C23_SubsetLogic ==
    [][pc = "subset" =>
          IF ActingPairs = {}
          THEN ~progress' /\ UNCHANGED <<visible, flags, flag_count>>
          ELSE progress' /\ \E p \in ActingPairs : AppliesPair(p[1], p[2])]_vars

\* the subset strategy has just revealed cells: it made progress and no cell
\* is flagged
C23_Witness ==
    /\ pc = "head" /\ last = "subset" /\ progress
    /\ \A c \in AllCells : ~flags[c]

-----------------------------------------------------------------------------
(* solver.rs: simulate_reveal, its pending cells taken in any order *)

\* simulate_reveal is called on boards up to RevealWidth x RevealHeight with at
\* most RevealMines mines, where at most MaxRevealed cells are revealed and at
\* most MaxFlagged hidden cells are flagged
RevealWidth == 4
RevealHeight == 2
RevealMines == 2
MaxRevealed == 1
MaxFlagged == 1

\* a visible grid that shows the cells of R
Showing(w, h, m, R) ==
    [c \in Cells(w, h) |-> IF c \in R THEN calculate_numbers(w, h, m)[c] ELSE -1]

RevealInit ==
    /\ \E w \in 1 .. RevealWidth, h \in 1 .. RevealHeight :
         /\ width = w
         /\ height = h
         /\ nc = NeighborCache(w, h)
         /\ \E S \in SUBSET Cells(w, h) :
              /\ Cardinality(S) <= RevealMines
              /\ mines = MinesOf(w, h, S)
              /\ grid = calculate_numbers(w, h, MinesOf(w, h, S))
              /\ \E Fl \in SUBSET Cells(w, h) :
                   /\ Cardinality(Fl) <= MaxFlagged
                   /\ flags = MinesOf(w, h, Fl)
                   /\ \E R \in SUBSET (Cells(w, h) \ Fl) :
                        /\ Cardinality(R) <= MaxRevealed
                        /\ visible = Showing(w, h, MinesOf(w, h, S), R)
    /\ start = <<0, 0>>
    /\ flag_count = 0
    /\ dirty_cells = {}
    /\ progress = TRUE
    /\ iterations = 0
    /\ pc = "entry"
    /\ result = FALSE
    /\ last = "call"
    /\ todo = {}
    /\ new_dirty = {}
    /\ basic_progress = FALSE
    /\ fc = 0
    /\ cc = ContraIdle
    /\ run = 1
    /\ first = FALSE
    /\ NoCall
    /\ NoGenerator

\* simulate_reveal(grid, visible, flags, x, y): the stack holds (x, y); arg keeps
\* the cell and the visible grid of the call, out the cells on the stack (a
\* second entry for a cell is popped when the cell no longer passes the checks,
\* so the stack is kept as the set of its cells)
SimulateReveal ==
    /\ call = "none"
    /\ \E c \in AllCells :
         /\ arg' = [cell |-> c, visible |-> visible]
         /\ out' = {c}
    /\ call' = "simulate_reveal"
    /\ UNCHANGED <<board, solver, rerun, gen>>

\* one round of the while-let loop, with any pending cell taken next
RevealPop ==
    /\ call = "simulate_reveal"
    /\ \E c \in out :
         IF RevealPasses(visible, flags, c)
         THEN /\ visible' = [visible EXCEPT ![c] = grid[c]]
              /\ out' = (out \ {c}) \cup (IF grid[c] = 0 THEN NeighborSet(c) ELSE {})
         ELSE /\ visible' = visible
              /\ out' = out \ {c}
    /\ UNCHANGED <<board, flags, flag_count, dirty_cells, progress, iterations, pc, result,
                   last, basicLocals, cc, rerun, gen, call, arg>>

NextReveal ==
    \/ SimulateReveal
    \/ RevealPop

SpecReveal == RevealInit /\ [][NextReveal]_vars

-----------------------------------------------------------------------------
(* Properties of simulate_reveal *)

\* the cells the call has revealed when it leaves the visible grid vis
RevealedByCall(vis) == {d \in AllCells : vis[d] # arg.visible[d]}

\* what holds of the visible grid vis the call ends with
RevealDone(vis) ==
    /\ vis = simulate_reveal(arg.visible, flags, arg.cell)
    /\ IF arg.visible[arg.cell] # -1 \/ flags[arg.cell]
       THEN vis = arg.visible
       ELSE vis[arg.cell] = grid[arg.cell]
    /\ \A d \in RevealedByCall(vis) :
          /\ vis[d] = 0 =>
                \A n \in AllCells : Chebyshev(n, d) = 1 => flags[n] \/ vis[n] # -1
          /\ d # arg.cell =>
                \E n \in RevealedByCall(vis) : Chebyshev(n, d) = 1 /\ vis[n] = 0

\* C25: simulate_reveal(c) changes nothing when c is revealed or flagged;
\* otherwise it sets V[c] = G[c] and, where G is 0, goes on to every in-bounds
\* neighbour. No round changes F or a flagged cell, a cell is set only when it
\* is hidden (so at most once), nothing is revealed but through a 0 revealed by
\* the call, and in whatever order the pending cells are taken the board ends
\* as with the stack order of the code.
C25_SimulateReveal ==
    [][call' = "simulate_reveal" =>
          /\ flags' = flags
          /\ \A d \in AllCells :
                visible'[d] # visible[d] =>
                    visible[d] = -1 /\ ~flags[d] /\ visible'[d] = grid[d]
          /\ out' = {} => RevealDone(visible')]_vars

\* a call has ended that revealed three cells or more, next to a flagged cell
\* and next to a cell revealed before
C25_Witness ==
    /\ call = "simulate_reveal" /\ out = {}
    /\ Cardinality(RevealedByCall(visible)) >= 3
    /\ \E d \in RevealedByCall(visible), n \in AllCells :
          visible[d] = 0 /\ Chebyshev(n, d) = 1 /\ flags[n]
    /\ \E d \in RevealedByCall(visible), n \in AllCells \ RevealedByCall(visible) :
          visible[d] = 0 /\ Chebyshev(n, d) = 1 /\ visible[n] # -1

-----------------------------------------------------------------------------
(* Properties of apply_global_mine_count *)

\* H: the hidden unflagged cells
HiddenUnflagged == {c \in AllCells : visible[c] = -1 /\ ~flags[c]}

\* C26: apply_global_mine_count, with H the hidden unflagged cells and
\* r = bomb_count - flag_count, flags every cell of H when H is not empty and
\* r = |H|, reveals every cell of H when H is not empty and r = 0, and changes
\* nothing otherwise.  When it reports progress no hidden unflagged cell is
\* left, and the iteration that follows changes nothing and ends without
\* progress.
C26_GlobalMineCount ==
    [][/\ pc = "global" =>
            IF HiddenUnflagged # {} /\ bomb_count - flag_count = Cardinality(HiddenUnflagged)
            THEN /\ progress'
                 /\ visible' = visible
                 /\ flags' = [c \in AllCells |-> flags[c] \/ c \in HiddenUnflagged]
                 /\ flag_count' = flag_count + Cardinality(HiddenUnflagged)
            ELSE IF HiddenUnflagged # {} /\ bomb_count - flag_count = 0
            THEN /\ progress'
                 /\ flags' = flags /\ flag_count' = flag_count
                 /\ visible' = [c \in AllCells |->
                                   IF c \in HiddenUnflagged THEN grid[c] ELSE visible[c]]
            ELSE ~progress' /\ UNCHANGED <<visible, flags, flag_count>>
       /\ (pc = "global" /\ progress') =>
            /\ last' = "global"
            /\ \A c \in AllCells : visible'[c] # -1 \/ flags'[c]
       /\ last = "global" =>
            /\ ~progress'
            /\ UNCHANGED <<visible, flags, flag_count>>
            /\ last' \in {"global", "none"}]_vars

\* the iteration after a call of apply_global_mine_count that flagged the
\* hidden cells (one of them with no revealed cell next to it) has passed the
\* first five strategies without progress
C26_Witness ==
    /\ pc = "global" /\ last = "global" /\ ~progress
    /\ HiddenUnflagged = {}
    /\ \E c \in AllCells : flags[c] /\ \A n \in NeighborSet(c) : visible[n] = -1

-----------------------------------------------------------------------------
(* Properties of the board is_solvable leaves *)

\* the frontier: the hidden unflagged cells next to a revealed number
Frontier ==
    {c \in HiddenUnflagged : \E n \in AllCells : Chebyshev(n, c) = 1 /\ visible[n] > 0}

\* clue c allows a deduction by basic counting
BasicDeductionAt(c) ==
    /\ visible[c] > 0
    /\ HiddenAround(c) # {}
    /\ \/ visible[c] = FlagsAround(c) + Cardinality(HiddenAround(c))
       \/ visible[c] = FlagsAround(c)

\* C27: when the loop of is_solvable has ended on a board whose frontier has at
\* most 50 cells, no revealed clue with a hidden unflagged neighbour satisfies
\* V = flagged + hidden or V = flagged, whether or not the clue is in the dirty
\* set.
C27_NoBasicDeductionLeft ==
    (pc = "done" /\ Cardinality(Frontier) <= MAX_CHECK) =>
        \A c \in AllCells : ~BasicDeductionAt(c)

\* the loop has ended with a clue that is not in the dirty set and still has
\* hidden unflagged neighbours
C27_Witness ==
    /\ pc = "done"
    /\ \E c \in AllCells :
          /\ visible[c] > 0 /\ HiddenAround(c) # {}
          /\ KeyOf(c) \notin dirty_cells

\* Strategy 1 has ended without progress although a clue outside the dirty set
\* allows a deduction by basic counting
C27_DroppedOut ==
    /\ pc = "subset"
    /\ \E c \in AllCells : BasicDeductionAt(c) /\ KeyOf(c) \notin dirty_cells

-----------------------------------------------------------------------------
(* gaussian.rs and solver.rs: the frontier split into components and regions *)

\* the functions are called on boards up to MaxWidth x MaxHeight and on the
\* boards of one row up to StripWidth cells, with at most MaxMines mines, at most
\* MaxShown cells revealed and at most MaxFlagged hidden cells flagged
StripWidth == 6
MaxShown == 3

FrontierShapes ==
    ((1 .. MaxWidth) \X (1 .. MaxHeight)) \cup {<<w, 1>> : w \in 1 .. StripWidth}

FrontierInit ==
    /\ \E sh \in FrontierShapes :
         /\ width = sh[1]
         /\ height = sh[2]
         /\ nc = NeighborCache(sh[1], sh[2])
         /\ \E S \in SubsetsUpTo(Cells(sh[1], sh[2]), MaxMines) :
              /\ mines = MinesOf(sh[1], sh[2], S)
              /\ grid = calculate_numbers(sh[1], sh[2], MinesOf(sh[1], sh[2], S))
              /\ \E R \in SubsetsUpTo(Cells(sh[1], sh[2]) \ S, MaxShown) :
                   /\ visible = Showing(sh[1], sh[2], MinesOf(sh[1], sh[2], S), R)
                   /\ \E Fl \in SubsetsUpTo(Cells(sh[1], sh[2]) \ R, MaxFlagged) :
                        /\ flags = MinesOf(sh[1], sh[2], Fl)
                        /\ flag_count = Cardinality(Fl)
    /\ start = <<0, 0>>
    /\ dirty_cells = {}
    /\ progress = TRUE
    /\ iterations = 0
    /\ pc = "entry"
    /\ result = FALSE
    /\ last = "call"
    /\ todo = {}
    /\ new_dirty = {}
    /\ basic_progress = FALSE
    /\ fc = 0
    /\ cc = ContraIdle
    /\ run = 1
    /\ first = FALSE
    /\ NoCall
    /\ NoGenerator

\* GaussianSolver::solve: "let components = get_connected_components(...)"
GetConnectedComponents ==
    /\ call = "none"
    /\ out' = [components |-> get_connected_components(visible, get_frontier(visible, flags))]
    /\ call' = "get_connected_components"
    /\ UNCHANGED <<board, solver, rerun, gen, arg>>

\* solve_component: the "valid" of every clue met from each component
SolveComponentClues ==
    /\ call = "get_connected_components"
    /\ out' = [components |-> out.components,
               valid |-> [i \in 1 .. Len(out.components) |->
                            [j \in 1 .. Len(ComponentClues(visible, out.components[i])) |->
                                ClueValid(visible, flags, out.components[i],
                                          ComponentClues(visible, out.components[i])[j])]]]
    /\ call' = "solve_component"
    /\ UNCHANGED <<board, solver, rerun, gen, arg>>

\* tank_solver: "let regions = group_frontier_regions(&frontier, visible, nc)"
GroupFrontierRegions ==
    /\ call = "solve_component"
    /\ out' = [components |-> out.components,
               valid |-> out.valid,
               regions |-> group_frontier_regions(get_frontier(visible, flags), visible)]
    /\ call' = "group_frontier_regions"
    /\ UNCHANGED <<board, solver, rerun, gen, arg>>

\* tank_solver: the constraints of every region and the masks that
\* enumerate_configurations finds valid (with max_mines the size of the region)
GetRegionConstraints ==
    /\ call = "group_frontier_regions"
    /\ out' = [components |-> out.components,
               valid |-> out.valid,
               regions |-> out.regions,
               constraints |-> [i \in 1 .. Len(out.regions) |->
                                  get_region_constraints(out.regions[i], visible, flags)],
               masks |-> [i \in 1 .. Len(out.regions) |->
                            enumerate_configurations(
                                out.regions[i],
                                get_region_constraints(out.regions[i], visible, flags),
                                Len(out.regions[i]))]]
    /\ call' = "get_region_constraints"
    /\ UNCHANGED <<board, solver, rerun, gen, arg>>

NextFrontier ==
    \/ GetConnectedComponents
    \/ SolveComponentClues
    \/ GroupFrontierRegions
    \/ GetRegionConstraints

SpecFrontier == FrontierInit /\ [][NextFrontier]_vars

-----------------------------------------------------------------------------
(* Properties of get_connected_components and group_frontier_regions *)

\* frontier cells a and b are both next to one revealed clue
SharesClue(a, b) ==
    \E n \in AllCells : visible[n] > 0 /\ Chebyshev(n, a) = 1 /\ Chebyshev(n, b) = 1

\* the frontier cells joined to a cell of S by a chain of frontier cells in which
\* each consecutive pair shares a clue
RECURSIVE ChainFrom(_)
ChainFrom(S) ==
    IF {b \in Frontier : \E a \in S : SharesClue(a, b)} \subseteq S THEN S
    ELSE ChainFrom(S \cup {b \in Frontier : \E a \in S : SharesClue(a, b)})

\* the cell sets of a list of cell lists
CellSets(lists) == {Range(lists[i]) : i \in 1 .. Len(lists)}

\* the lists are a partition of the frontier into the classes of the chains
PartitionsFrontier(lists) ==
    /\ \A i \in 1 .. Len(lists) :
          /\ lists[i] # << >>
          /\ Cardinality(Range(lists[i])) = Len(lists[i])
          /\ \A j \in 1 .. Len(lists) : i # j => Range(lists[i]) \cap Range(lists[j]) = {}
          /\ \A a \in Range(lists[i]) : Range(lists[i]) = ChainFrom({a})
    /\ UNION CellSets(lists) = Frontier

\* C28: get_connected_components partitions the frontier: the components are
\* pairwise disjoint, their union is the frontier, and two frontier cells are in
\* one component exactly when a chain of frontier cells joins them in which each
\* consecutive pair are neighbours of one revealed clue.
C28_ComponentsPartitionFrontier ==
    call = "get_connected_components" => PartitionsFrontier(out.components)

\* a frontier of two components or more, one of them with two cells that share
\* a clue and are not next to each other
C28_Witness ==
    /\ call = "get_connected_components"
    /\ Len(out.components) >= 2
    /\ \E a \in Frontier, b \in Frontier : SharesClue(a, b) /\ Chebyshev(a, b) = 2

\* C29: group_frontier_regions and get_connected_components return the same
\* family of cell sets for the visible state and its frontier.
C29_RegionsAreComponents ==
    call = "group_frontier_regions" => CellSets(out.regions) = CellSets(out.components)

\* a frontier of two regions, each of two cells
C29_Witness ==
    /\ call = "group_frontier_regions"
    /\ Len(out.regions) = 2
    /\ \A i \in 1 .. Len(out.regions) : Len(out.regions[i]) = 2

\* the clues next to a cell of S
CluesAt(S) ==
    {n \in AllCells : visible[n] > 0 /\ \E c \in S : Chebyshev(n, c) = 1}

\* the hidden unflagged neighbours of every clue next to S belong to S
ClosedUnderClues(S) == \A n \in CluesAt(S) : HiddenAround(n) \subseteq S

\* the cells of the region that mask marks as mines
MaskCells(region, mask) == {region[k] : k \in {j \in 1 .. Len(region) : BitSet(mask, j)}}

\* C30: components and regions computed from the current frontier are closed
\* under clues: every hidden unflagged neighbour of a clue next to a component
\* belongs to it.  So solve_component finds every clue of a component valid,
\* every region constraint has outside count 0, and a mask is valid only if the
\* remaining count of each clue next to the region is met exactly by the region
\* cells the mask marks.
C30_ClosedUnderClues ==
    call = "get_region_constraints" =>
        /\ \A i \in 1 .. Len(out.components) :
              /\ ClosedUnderClues(Range(out.components[i]))
              /\ Len(out.valid[i]) = Cardinality(CluesAt(Range(out.components[i])))
              /\ \A j \in 1 .. Len(out.valid[i]) : out.valid[i][j]
        /\ \A i \in 1 .. Len(out.regions) :
              /\ ClosedUnderClues(Range(out.regions[i]))
              /\ Len(out.constraints[i]) = Cardinality(CluesAt(Range(out.regions[i])))
              /\ \A j \in 1 .. Len(out.constraints[i]) :
                    out.constraints[i][j].cells_outside_count = 0
              /\ \A mask \in out.masks[i], n \in CluesAt(Range(out.regions[i])) :
                    Cardinality(MaskCells(out.regions[i], mask) \cap HiddenAround(n))
                        = visible[n] - FlagsAround(n)

\* a region of three cells or more with two clues or more next to it, a flagged
\* cell next to one of them, and more than one valid mask
C30_Witness ==
    /\ call = "get_region_constraints"
    /\ \E i \in 1 .. Len(out.regions) :
          /\ Len(out.regions[i]) >= 3
          /\ Len(out.constraints[i]) >= 2
          /\ Cardinality(out.masks[i]) >= 2
          /\ \E n \in CluesAt(Range(out.regions[i])) : FlagsAround(n) > 0

-----------------------------------------------------------------------------
(* Properties of is_solvable before its loop *)

\* the revealed cells
Revealed == {c \in AllCells : visible[c] # -1}

\* C40: before the first strategy runs, is_solvable has revealed, with the
\* cascade, every cell of the 3x3 square around the start that lies on the
\* board; the initial dirty set is exactly the revealed cells and all their
\* neighbours; no cell is flagged and the flag count is 0.
C40_StartZoneAndInitialDirty ==
    (pc = "head" /\ iterations = 0) =>
        /\ \A c \in AllCells : Chebyshev(c, start) <= 1 => visible[c] = grid[c]
        /\ \A c \in Revealed :
              /\ visible[c] = grid[c]
              /\ visible[c] = 0 => \A n \in AllCells : Chebyshev(n, c) = 1 => n \in Revealed
              /\ \/ Chebyshev(c, start) <= 1
                 \/ \E n \in Revealed : Chebyshev(n, c) = 1 /\ visible[n] = 0
        /\ dirty_cells = {KeyOf(c) : c \in {d \in AllCells :
                                               \E r \in Revealed : Chebyshev(d, r) <= 1}}
        /\ \A c \in AllCells : ~flags[c]
        /\ flag_count = 0

\* the loop is about to start on a board where the cascade went beyond the 3x3
\* square, with hidden cells in the dirty set and hidden cells outside it
C40_Witness ==
    /\ pc = "head" /\ iterations = 0
    /\ \E c \in Revealed : Chebyshev(c, start) > 1
    /\ \E c \in AllCells \ Revealed : KeyOf(c) \in dirty_cells
    /\ \E c \in AllCells \ Revealed : KeyOf(c) \notin dirty_cells

-----------------------------------------------------------------------------
(* gaussian.rs: solve_component step by step, and the wrapper of Strategy 3 *)

\* solve_component is called on whole components and on the windows that
\* solve_large_component cuts with a window size up to MaxWindow
MaxWindow == 3

\* the chunks of a component: the component itself, and sorted[i .. i + w) for
\* i = 0, w / 2, 2 (w / 2), ...
Chunks(component) ==
    {component}
    \cup {SubSeq(SortRowMajor(component), k * (w \div 2) + 1,
                 Min(k * (w \div 2) + w, Len(component)))
          : <<w, k>> \in {p \in (2 .. MaxWindow) \X (0 .. Len(component)) :
                             p[2] * (p[1] \div 2) < Len(component)}}

\* solve_component steps 1 to 3: arg is the component (or chunk), out the matrix
SolveComponent ==
    /\ call = "none"
    /\ \E chunk \in UNION {Chunks(c) : c \in Range(get_connected_components(
                                                      visible, get_frontier(visible, flags)))} :
         /\ arg' = chunk
         /\ out' = [matrix |-> BuildMatrix(visible, flags, chunk)]
    /\ call' = "solve_component"
    /\ UNCHANGED <<board, solver, rerun, gen>>

\* step 4: "compute_rref(&mut matrix, m, n)" (skipped when there is no equation)
ComputeRref ==
    /\ call = "solve_component"
    /\ out' = [matrix |-> out.matrix,
               rref |-> IF Len(out.matrix) = 0 THEN << >>
                        ELSE compute_rref(out.matrix, Len(out.matrix), Len(arg))]
    /\ call' = "compute_rref"
    /\ UNCHANGED <<board, solver, rerun, gen, arg>>

\* step 5 and the result of solve_component
ReasonAboutRows ==
    /\ call = "compute_rref"
    /\ out' = [matrix |-> out.matrix,
               rref |-> out.rref,
               result |-> solve_component(visible, flags, arg)]
    /\ call' = "reason"
    /\ UNCHANGED <<board, solver, rerun, gen, arg>>

\* solve_by_gaussian_elimination on the real grids; arg keeps the grids of the
\* call, out the result of gaussian::solve and the changed cells
GaussianWrapper ==
    /\ call = "none"
    /\ arg' = [visible |-> visible, flags |-> flags, flag_count |-> flag_count]
    /\ out' = [result |-> solve(visible, flags, get_frontier(visible, flags)),
               changed_cells |->
                   solve_by_gaussian_elimination(visible, flags, flag_count).changed_cells]
    /\ visible' = solve_by_gaussian_elimination(visible, flags, flag_count).visible
    /\ flags' = solve_by_gaussian_elimination(visible, flags, flag_count).flags
    /\ flag_count' = solve_by_gaussian_elimination(visible, flags, flag_count).flag_count
    /\ progress' = solve_by_gaussian_elimination(visible, flags, flag_count).progress
    /\ call' = "solve_by_gaussian_elimination"
    /\ UNCHANGED <<board, dirty_cells, iterations, pc, result, last, basicLocals, cc,
                   rerun, gen>>

NextGauss ==
    \/ SolveComponent
    \/ ComputeRref
    \/ ReasonAboutRows
    \/ GaussianWrapper

\* the inputs of SpecFrontier with at most GaussMines mines
GaussMines == 1

GaussInit == FrontierInit /\ bomb_count <= GaussMines

SpecGauss == GaussInit /\ [][NextGauss]_vars

-----------------------------------------------------------------------------
(* Properties of solve_component and of the wrapper of Strategy 3 *)

\* the row the equation of clue n has over the variables of a chunk: 1 at the
\* hidden unflagged neighbours of n, then the clue's value less its flags
RowOfClue(chunk, n) ==
    [j \in 1 .. Len(chunk) + 1 |->
        IF j = Len(chunk) + 1 THEN <<visible[n] - FlagsAround(n), 1>>
        ELSE IF chunk[j] \in HiddenAround(n) THEN <<1, 1>> ELSE <<0, 1>>]

\* the clues next to a chunk whose hidden unflagged neighbours all lie in it
KeptClues(chunk) == {n \in CluesAt(Range(chunk)) : HiddenAround(n) \subseteq Range(chunk)}

\* C31: the matrix solve_component builds has one row per clue next to the
\* component (or window) whose hidden unflagged neighbours all lie inside it, and
\* no row for any other clue; the row of a kept clue has coefficient 1 exactly at
\* the clue's hidden unflagged neighbours and the clue's value less the number of
\* its flagged neighbours as right-hand side
C31_EquationsOfValidClues ==
    call = "solve_component" =>
        /\ Len(out.matrix) = Cardinality(KeptClues(arg))
        /\ \A i \in 1 .. Len(out.matrix) :
              \E n \in KeptClues(arg) : out.matrix[i] = RowOfClue(arg, n)
        /\ \A n \in KeptClues(arg) :
              Cardinality({i \in 1 .. Len(out.matrix) : out.matrix[i] = RowOfClue(arg, n)})
                  = Cardinality({q \in KeptClues(arg) :
                                    RowOfClue(arg, q) = RowOfClue(arg, n)})

\* a window that leaves a clue out and keeps a clue with two variables
C31_Witness ==
    /\ call = "solve_component"
    /\ KeptClues(arg) # CluesAt(Range(arg))
    /\ \E i \in 1 .. Len(out.matrix) :
          Cardinality({j \in 1 .. Len(arg) : out.matrix[i][j] = <<1, 1>>}) >= 2
    /\ \E n \in KeptClues(arg) : FlagsAround(n) > 0

\* the sum of the coefficients of a reduced row that satisfy sign (exact fractions)
SignedSum(row, n, sign(_)) ==
    QSum([j \in 1 .. n |-> IF sign(row[j][1]) THEN row[j] ELSE <<0, 1>>])

\* two fractions with positive denominators are equal
SameFraction(a, b) == a[1] * b[2] = b[1] * a[2]

\* the columns of a reduced row that it reports as mines (kind = "mines") or as
\* safe (kind = "safe"), by the rule of step 5
RowReports(row, n, kind) ==
    LET neg == {j \in 1 .. n : row[j][1] < 0}
        pos == {j \in 1 .. n : row[j][1] > 0}
        t == row[n + 1]
    IN  IF neg \cup pos = {} THEN {}
        ELSE IF SameFraction(t, SignedSum(row, n, LAMBDA v : v < 0))
             THEN (IF kind = "mines" THEN neg ELSE pos)
        ELSE IF SameFraction(t, SignedSum(row, n, LAMBDA v : v > 0))
             THEN (IF kind = "mines" THEN pos ELSE neg)
        ELSE {}

\* the cells the reduced rows report, all rows together
Reported(rref, chunk, kind) ==
    UNION {{chunk[j] : j \in RowReports(rref[i], Len(chunk), kind)} : i \in 1 .. Len(rref)}

\* C32: solve_component reports as mines and as safe exactly what its reduced
\* rows say: an all-zero row says nothing; a row whose right-hand side equals the
\* sum of its negative coefficients says its negative-coefficient variables are
\* mines and its positive-coefficient ones safe; else a row whose right-hand side
\* equals the sum of its positive coefficients says the positive ones are mines
\* and the negative ones safe; any other row says nothing
C32_RowInference ==
    call = "reason" =>
        /\ Range(out.result.mines) = Reported(out.rref, arg, "mines")
        /\ Range(out.result.safe) = Reported(out.rref, arg, "safe")

\* a reduced row with a negative coefficient that reports a mine and a safe cell,
\* next to an all-zero row and to a row that reports nothing
C32_Witness ==
    /\ call = "reason"
    /\ \E i \in 1 .. Len(out.rref) :
          /\ \E j \in 1 .. Len(arg) : out.rref[i][j][1] < 0
          /\ RowReports(out.rref[i], Len(arg), "mines") # {}
          /\ RowReports(out.rref[i], Len(arg), "safe") # {}
    /\ \E i \in 1 .. Len(out.rref) : \A j \in 1 .. Len(arg) : out.rref[i][j][1] = 0
    /\ \E i \in 1 .. Len(out.rref) :
          /\ \E j \in 1 .. Len(arg) : out.rref[i][j][1] # 0
          /\ RowReports(out.rref[i], Len(arg), "mines") = {}
          /\ RowReports(out.rref[i], Len(arg), "safe") = {}

\* the cells gaussian::solve reported both as safe and as mine
ConflictCells == Range(out.result.mines) \cap Range(out.result.safe)

\* how often a cell occurs in a list
Occurrences(list, c) == Cardinality({i \in 1 .. Len(list) : list[i] = c})

\* C33 as stated: a cell that Gaussian elimination reports both as safe and as
\* mine ends flagged and revealed on the real grids
C33_ConflictFlaggedAndRevealed ==
    call = "solve_by_gaussian_elimination" =>
        \A c \in ConflictCells : flags[c] /\ visible[c] # -1

\* C33: the wrapper does not look for a conflict: a cell that Gaussian
\* elimination reports both as safe and as mine is flagged and counted like every
\* reported mine, then handed to simulate_reveal, which leaves a flagged cell
\* hidden; it ends flagged and hidden and is listed twice among the changed cells
C33_ConflictFlaggedNotRevealed ==
    call = "solve_by_gaussian_elimination" =>
        /\ \A c \in ConflictCells :
              /\ flags[c] /\ ~arg.flags[c]
              /\ visible[c] = -1
              /\ Occurrences(out.changed_cells, c) = 2
        /\ \A c \in Range(out.result.mines) : flags[c]
        /\ flag_count = arg.flag_count + Len(out.result.mines)
        /\ \A c \in Range(out.result.safe) \ ConflictCells : visible[c] # -1

\* a call whose result holds a conflicting cell next to a cell that is only safe
C33_Witness ==
    /\ call = "solve_by_gaussian_elimination"
    /\ ConflictCells # {}
    /\ Range(out.result.safe) \ ConflictCells # {}

-----------------------------------------------------------------------------
(* solver.rs: solve_by_contradiction and check_contradiction on their own *)

\* boards of one row of up to LongWidth cells, hidden cells and revealed clues in
\* turn with a mine in every other hidden cell, so that the frontier has more
\* than MAX_CHECK cells and a hypothesis propagates for more than
\* CONTRA_MAX_ITERATIONS rounds
LongWidth == 103

\* the cells x = r, r + 4, ... of a row of w cells
EveryFourth(w, r) == {<<x, 0>> : x \in {k \in 0 .. w - 1 : k % 4 = r}}

\* the revealed cells: every odd x
OddCells(w) == {<<x, 0>> : x \in {k \in 0 .. w - 1 : k % 2 = 1}}

\* the long boards [w, mines]: a row that ends with a hidden cell at both ends,
\* where the clues cannot tell the two mine patterns apart, and a row one cell
\* shorter that ends with a clue, which gives the pattern away
LongBoards ==
    {<<LongWidth, EveryFourth(LongWidth, 0)>>,
     <<LongWidth, EveryFourth(LongWidth, 2)>>,
     <<LongWidth - 1, EveryFourth(LongWidth - 1, 0)>>}

LongInit ==
    /\ \E b \in LongBoards :
         /\ width = b[1]
         /\ nc = NeighborCache(b[1], 1)
         /\ mines = MinesOf(b[1], 1, b[2])
         /\ grid = calculate_numbers(b[1], 1, MinesOf(b[1], 1, b[2]))
         /\ visible = Showing(b[1], 1, MinesOf(b[1], 1, b[2]), OddCells(b[1]))
         /\ flags = MinesOf(b[1], 1, {})
    /\ height = 1
    /\ flag_count = 0
    /\ start = <<0, 0>>
    /\ dirty_cells = {}
    /\ progress = TRUE
    /\ iterations = 0
    /\ pc = "entry"
    /\ result = FALSE
    /\ last = "call"
    /\ todo = {}
    /\ new_dirty = {}
    /\ basic_progress = FALSE
    /\ fc = 0
    /\ cc = ContraIdle
    /\ run = 1
    /\ first = FALSE
    /\ NoCall
    /\ NoGenerator

\* "let frontier = get_frontier(..); let max_check = frontier.len().min(50)" and
\* the first call of check_contradiction, on frontier[0] with assume_mine = true
SolveByContradiction ==
    /\ pc = "entry"
    /\ LET frontier == get_frontier(visible, flags)
       IN  IF Min(Len(frontier), MAX_CHECK) = 0
           THEN pc' = "tank" /\ cc' = ContraIdle
           ELSE pc' = "contra" /\ cc' = CheckStart(visible, 1, frontier[1], TRUE)
    /\ UNCHANGED <<board, rerun, api, gen, visible, flags, flag_count, dirty_cells, progress,
                   iterations, result, last, basicLocals>>

NextContra ==
    \/ SolveByContradiction
    \/ ContradictionVisit
    \/ ContradictionRound
    \/ ContradictionNone
    \/ ContradictionFound

ContraInit == GaussInit \/ LongInit

SpecContra == ContraInit /\ [][NextContra]_vars

-----------------------------------------------------------------------------
(* Properties of solve_by_contradiction and check_contradiction *)

\* the number of frontier cells solve_by_contradiction examines
Examined ==
    IF Len(get_frontier(visible, flags)) < 50 THEN Len(get_frontier(visible, flags)) ELSE 50

\* the frontier cell under test
Candidate == get_frontier(visible, flags)[cc.i]

\* C34: solve_by_contradiction tests the frontier cells in scan order, never
\* beyond the 50th, each under the mine hypothesis and then under the safe
\* hypothesis; while it tests, V, F and the flag count stay as they are; at the
\* first contradiction it returns after revealing the candidate (mine hypothesis)
\* or after flagging it and adding 1 to the flag count (safe hypothesis), and
\* nothing else of the overlay reaches V or F; it returns without progress only
\* after both hypotheses of the last examined cell, with V, F and the flag count
\* unchanged
C34_SolveByContradiction ==
    [][/\ pc' = "contra" =>
            /\ UNCHANGED <<visible, flags, flag_count>>
            /\ cc'.i \in 1 .. Examined
            /\ KeyOf(get_frontier(visible, flags)[cc'.i])
                   \in (IF cc'.assume_mine THEN cc'.sim_flags ELSE cc'.sim_revealed)
            /\ pc = "entry" => cc'.i = 1 /\ cc'.assume_mine
            /\ pc = "contra" =>
                   \/ cc'.i = cc.i /\ cc'.assume_mine = cc.assume_mine
                   \/ cc'.i = cc.i /\ cc.assume_mine /\ ~cc'.assume_mine
                   \/ cc'.i = cc.i + 1 /\ ~cc.assume_mine /\ cc'.assume_mine
       /\ (pc = "contra" /\ pc' = "head") =>
            /\ progress'
            /\ IF cc.assume_mine
               THEN /\ visible'[Candidate] = grid[Candidate]
                    /\ visible' = simulate_reveal(visible, flags, Candidate)
                    /\ grid[Candidate] # 0 =>
                           visible' = [visible EXCEPT ![Candidate] = grid[Candidate]]
                    /\ UNCHANGED <<flags, flag_count>>
               ELSE /\ flags' = [flags EXCEPT ![Candidate] = TRUE]
                    /\ flag_count' = flag_count + 1
                    /\ UNCHANGED visible
       /\ pc' = "tank" =>
            /\ UNCHANGED <<visible, flags, flag_count, progress>>
            /\ pc = "contra" => cc.i = Examined /\ ~cc.assume_mine
            /\ pc = "entry" => Examined = 0
      ]_vars

\* the 50th of more than 50 frontier cells under the safe hypothesis, with flags
\* in the overlay and none on the board
C34_Witness ==
    /\ pc = "contra"
    /\ Len(get_frontier(visible, flags)) > 50
    /\ cc.i = 50 /\ ~cc.assume_mine
    /\ cc.sim_flags # {}
    /\ flag_count = 0

\* the flagged neighbours of q under the overlay
OverlayFlagged(q) ==
    Cardinality({n \in AllCells : /\ Chebyshev(n, q) = 1
                                  /\ flags[n] \/ KeyOf(n) \in cc.sim_flags})

\* the neighbours of q that are hidden under the overlay
OverlayHidden(q) ==
    Cardinality({n \in AllCells : /\ Chebyshev(n, q) = 1
                                  /\ ~(flags[n] \/ KeyOf(n) \in cc.sim_flags)
                                  /\ visible[n] = -1
                                  /\ KeyOf(n) \notin cc.sim_revealed})

\* q is a revealed clue that the overlay contradicts
Contradicted(q) ==
    /\ visible[q] > 0
    /\ \/ OverlayFlagged(q) > visible[q]
       \/ OverlayFlagged(q) + OverlayHidden(q) < visible[q]

\* C35: check_contradiction starts from the revealed clues next to the
\* hypothesis cell and runs at most 20 rounds; it returns true only on an examined
\* clue q with flagged(q) > V[q] or flagged(q) + hidden(q) < V[q] under the
\* overlay, it passes over an examined clue only when neither holds, and it
\* returns false only when a round has examined all its clues and either changed
\* nothing or was the 20th
C35_CheckContradiction ==
    [][/\ pc' = "contra" =>
            /\ cc'.iterations \in 1 .. 20
            /\ (pc = "entry" \/ cc'.i # cc.i \/ cc'.assume_mine # cc.assume_mine) =>
                   /\ cc'.iterations = 1
                   /\ cc'.current =
                          {KeyOf(n) : n \in {m \in AllCells :
                              /\ Chebyshev(m, get_frontier(visible, flags)[cc'.i]) = 1
                              /\ visible[m] > 0}}
       /\ (pc = "contra" /\ pc' = "head") =>
            \E key \in cc.current : Contradicted(decode_key(key))
       /\ (pc = "contra" /\ pc' = "contra" /\ cc'.i = cc.i
              /\ cc'.assume_mine = cc.assume_mine /\ cc'.iterations = cc.iterations) =>
            \E key \in cc.current :
                /\ cc'.current = cc.current \ {key}
                /\ ~Contradicted(decode_key(key))
       /\ (pc = "contra" /\ cc'.iterations = cc.iterations + 1) =>
            cc.current = {} /\ cc.changed /\ cc'.i = cc.i /\ cc'.assume_mine = cc.assume_mine
       /\ (pc = "contra" /\ (pc' = "tank" \/ (pc' = "contra" /\ cc'.i # cc.i)
                                          \/ (pc' = "contra"
                                                 /\ cc'.assume_mine # cc.assume_mine))) =>
            /\ cc.current = {}
            /\ ~cc.changed \/ cc.iterations = 20
      ]_vars

\* the 20th round has ended with a change: the check returns false although the
\* propagation has not come to rest
C35_Witness ==
    /\ pc = "contra"
    /\ cc.iterations = 20
    /\ cc.current = {}
    /\ cc.changed
    /\ cc.to_check # {}

-----------------------------------------------------------------------------
(* solver.rs: tank_solver and its helpers on their own *)

\* enumerate_configurations is called with max_mines up to MaxMaxMines
MaxMaxMines == 3

\* the regions tank_solver goes through, in its order
SortedRegions(vis, flg) == SortByLen(group_frontier_regions(get_frontier(vis, flg), vis))

\* the regions enumerate_configurations is called on: those of tank_solver that
\* pass "region.len() > MAX_REGION_SIZE", and their leading parts, whose clues
\* have hidden cells outside
RegionInputs ==
    UNION {{SubSeq(r, 1, k) : k \in 1 .. Len(r)}
           : r \in {q \in Range(SortedRegions(visible, flags)) : Len(q) <= MAX_REGION_SIZE}}

\* "let valid_configs = enumerate_configurations(region, &constraints, max_mines)"
EnumerateConfigurations ==
    /\ call = "none"
    /\ \E region \in RegionInputs :
         \E max_mines \in 0 .. MaxMaxMines :
            /\ arg' = [region |-> region,
                       constraints |-> get_region_constraints(region, visible, flags),
                       max_mines |-> max_mines]
            /\ out' = [valid_masks |->
                          enumerate_configurations(
                              region, get_region_constraints(region, visible, flags),
                              max_mines)]
    /\ call' = "enumerate_configurations"
    /\ UNCHANGED <<board, solver, rerun, gen>>

\* "if valid_configs.is_empty() { continue; }", else analyze_configurations
AnalyzeConfigurations ==
    /\ call = "enumerate_configurations"
    /\ out.valid_masks # {}
    /\ out' = [valid_masks |-> out.valid_masks,
               definite |-> analyze_configurations(arg.region, out.valid_masks)]
    /\ call' = "analyze_configurations"
    /\ UNCHANGED <<board, solver, rerun, gen, arg>>

\* tank_solver on the real grids; arg keeps the grids of the call, out the
\* regions in the order of the loop and the changed cells
TankSolverCall ==
    /\ call = "none"
    /\ arg' = [visible |-> visible, flags |-> flags, flag_count |-> flag_count]
    /\ out' = [regions |-> IF get_frontier(visible, flags) = << >> THEN << >>
                           ELSE SortedRegions(visible, flags),
               changed_cells |->
                   tank_solver(visible, flags, bomb_count, flag_count).changed_cells]
    /\ visible' = tank_solver(visible, flags, bomb_count, flag_count).visible
    /\ flags' = tank_solver(visible, flags, bomb_count, flag_count).flags
    /\ flag_count' = tank_solver(visible, flags, bomb_count, flag_count).flag_count
    /\ progress' = tank_solver(visible, flags, bomb_count, flag_count).progress
    /\ call' = "tank_solver"
    /\ UNCHANGED <<board, dirty_cells, iterations, pc, result, last, basicLocals, cc,
                   rerun, gen>>

NextTank ==
    \/ EnumerateConfigurations
    \/ AnalyzeConfigurations
    \/ TankSolverCall

\* the inputs of SpecFrontier on the boards of at most TankCells cells, and the
\* long boards, whose frontier is one region of more than MAX_REGION_SIZE cells
TankCells == 6

TankInit == (FrontierInit /\ width * height <= TankCells) \/ LongInit

SpecTank == TankInit /\ [][NextTank]_vars

-----------------------------------------------------------------------------
(* Properties of tank_solver and its helpers *)

\* bit i (from 1) of mask m
Bit(m, i) == (m \div 2 ^ (i - 1)) % 2 = 1

\* the number of 1 bits among the first n bits of m
Popcount(m, n) == Cardinality({i \in 1 .. n : Bit(m, i)})

\* the region cells of constraint c that mask m selects
Selected(c, m) ==
    Cardinality({k \in 1 .. Len(c.cells_in_region_indices) :
                    Bit(m, c.cells_in_region_indices[k])})

\* mask m leaves constraint c between 0 and cells_outside_count mines outside
Satisfies(m, c) ==
    /\ 0 <= c.remaining - Selected(c, m)
    /\ c.remaining - Selected(c, m) <= c.cells_outside_count

\* C36: enumerate_configurations returns the masks m of [0, 2^|R|) with
\* popcount(m) <= max_mines that leave every constraint between 0 and
\* cells_outside_count mines outside the region, all of them and no other
C36_EnumerateConfigurations ==
    call = "enumerate_configurations" =>
        out.valid_masks =
            {m \in 0 .. 2 ^ Len(arg.region) - 1 :
                /\ Popcount(m, Len(arg.region)) <= arg.max_mines
                /\ \A i \in 1 .. Len(arg.constraints) : Satisfies(m, arg.constraints[i])}

\* a call that returns a mask and leaves out a mask for its popcount alone, a
\* mask that selects too many mines of a clue and a mask that leaves a clue more
\* mines than it has cells outside
C36_Witness ==
    /\ call = "enumerate_configurations"
    /\ out.valid_masks # {}
    /\ \E m \in 0 .. 2 ^ Len(arg.region) - 1 :
          /\ Popcount(m, Len(arg.region)) > arg.max_mines
          /\ \A i \in 1 .. Len(arg.constraints) : Satisfies(m, arg.constraints[i])
    /\ \E m \in 0 .. 2 ^ Len(arg.region) - 1 : \E i \in 1 .. Len(arg.constraints) :
          arg.constraints[i].remaining - Selected(arg.constraints[i], m) < 0
    /\ \E m \in 0 .. 2 ^ Len(arg.region) - 1 : \E i \in 1 .. Len(arg.constraints) :
          /\ arg.constraints[i].cells_outside_count > 0
          /\ arg.constraints[i].remaining - Selected(arg.constraints[i], m)
                > arg.constraints[i].cells_outside_count

\* C37: analyze_configurations reports region cell i as a definite mine exactly
\* when bit i is 1 in every valid mask and as definitely safe exactly when bit i
\* is 0 in every valid mask; with a mask set that is not empty no cell is reported
\* as both, and a cell whose bit differs between two masks is reported as neither
C37_AnalyzeConfigurations ==
    call = "analyze_configurations" =>
        /\ \A i \in 1 .. Len(arg.region) :
              /\ arg.region[i] \in Range(out.definite[1])
                    <=> \A m \in out.valid_masks : Bit(m, i)
              /\ arg.region[i] \in Range(out.definite[2])
                    <=> \A m \in out.valid_masks : ~Bit(m, i)
              /\ (\E m, n \in out.valid_masks : Bit(m, i) /\ ~Bit(n, i)) =>
                    /\ arg.region[i] \notin Range(out.definite[1])
                    /\ arg.region[i] \notin Range(out.definite[2])
        /\ Range(out.definite[1]) \cap Range(out.definite[2]) = {}
        /\ Range(out.definite[1]) \cup Range(out.definite[2]) \subseteq Range(arg.region)

\* masks that agree on a mine, agree on a safe cell and differ on a third cell
C37_Witness ==
    /\ call = "analyze_configurations"
    /\ Cardinality(out.valid_masks) >= 2
    /\ out.definite[1] # << >>
    /\ out.definite[2] # << >>
    /\ \E i \in 1 .. Len(arg.region) :
          \E m, n \in out.valid_masks : Bit(m, i) /\ ~Bit(n, i)

\* every flag of a flag grid stands on a mine
OnlyMinesFlagged(flg) == \A c \in AllCells : flg[c] => mines[c]

ValidMineSets(r) ==
    {M \in SUBSET Range(r) :
        /\ Cardinality(M) <= bomb_count - flag_count
        /\ \A q \in CluesAt(Range(r)) :
              /\ visible[q] - FlagsAround(q) - Cardinality(M \cap HiddenAround(q)) >= 0
              /\ visible[q] - FlagsAround(q) - Cardinality(M \cap HiddenAround(q))
                     <= Cardinality(HiddenAround(q) \ Range(r))}

\* the cells of r that are a mine in every valid mine set, and in none
DefiniteMines(r) == {c \in Range(r) : \A M \in ValidMineSets(r) : c \in M}
DefiniteSafes(r) == {c \in Range(r) : \A M \in ValidMineSets(r) : c \notin M}

\* region r is enumerated and yields a flag or a reveal
Yields(r) ==
    /\ Len(r) <= 20
    /\ CluesAt(Range(r)) # {}
    /\ ValidMineSets(r) # {}
    /\ DefiniteMines(r) \cup DefiniteSafes(r) # {}

\* what tank_solver does when region r is the first that yields
AppliesRegion(r) ==
    /\ progress'
    /\ {c \in AllCells : flags'[c] /\ ~flags[c]} = DefiniteMines(r)
    /\ \A c \in AllCells : flags[c] => flags'[c]
    /\ flag_count' = flag_count + Cardinality(DefiniteMines(r))
    /\ \A c \in DefiniteSafes(r) : visible'[c] # -1
    /\ \A c \in AllCells : visible[c] # -1 => visible'[c] = visible[c]
    /\ (\A c \in DefiniteSafes(r) : grid[c] # 0) =>
           {c \in AllCells : visible'[c] # visible[c]} = DefiniteSafes(r)

\* C39: tank_solver goes through the regions of the frontier in non-decreasing
\* order of size; a region of more than 20 cells is never enumerated; the flags
\* and reveals of the first region that yields any are applied, and no other,
\* before it returns; when no region yields, V, F and the flag count stay as
\* they are
C39_TankSolverOrder ==
    [][(call = "none" /\ call' = "tank_solver") =>
          /\ \A i, j \in 1 .. Len(out'.regions) :
                i < j => Len(out'.regions[i]) <= Len(out'.regions[j])
          /\ CellSets(out'.regions)
                = CellSets(group_frontier_regions(get_frontier(visible, flags), visible))
          /\ \A k \in 1 .. Len(out'.regions) :
                (Yields(out'.regions[k])
                   /\ \A i \in 1 .. k - 1 : ~Yields(out'.regions[i])) =>
                     AppliesRegion(out'.regions[k])
          /\ (\A k \in 1 .. Len(out'.regions) : ~Yields(out'.regions[k])) =>
                /\ ~progress'
                /\ UNCHANGED <<visible, flags, flag_count>>
      ]_vars

\* a call that passes over its first region and changes cells of a later one
C39_Witness ==
    /\ call = "tank_solver"
    /\ progress
    /\ Len(out.regions) >= 2
    /\ out.changed_cells # << >>
    /\ \A i \in 1 .. Len(out.changed_cells) : out.changed_cells[i] \notin Range(out.regions[1])
    /\ \E c \in AllCells : flags[c] /\ ~arg.flags[c]

====
